---- MODULE Spec2Model ----
(***************************************************************************)
(* Model of the Trinity voice gateway (src/server.js): the per-call bridge *)
(* between the telephony media socket (twilioWS) and the model socket      *)
(* (aiWS), the call state store (transcripts), the /transcripts webhook,   *)
(* the barge-in, number-mode, idle and auto-press control loops and their  *)
(* timers.  Time is Date.now() in milliseconds (variable now).  A timer    *)
(* is represented by its deadline; it fires when the clock reaches it.     *)
(***************************************************************************)
EXTENDS Integers, Sequences, FiniteSets, TLC

VARIABLES
  now,            \* Date.now(), ms
  ticks,          \* number of clock advances so far (bounded by MaxTicks)
  twilioWS,       \* readyState of the telephony socket of the connection
  aiWS,           \* readyState of the model socket of the connection
  streamSid,      \* connection closure: streamSid
  currentCallSid, \* connection closure: currentCallSid
  callerFrom,     \* connection closure: callerFrom
  aiReady,        \* connection closure: aiReady
  openPc,         \* position of the async aiWS.on('open') handler
  startPc,        \* position of the async twilioWS 'start' handler
  transcripts,    \* the call state store: a Map callSid -> state
  pressRateLimit, \* Map key -> timestamp of the last accepted auto-press
  releaseTimers,  \* pending barge-in release timeouts (deadlines)
  idleRuns,       \* triggerIdle runs in progress: [call, pc, due]
  pendingAcks,    \* session.update messages the model has not yet acknowledged
  callInfo,       \* what the telephony provider knows of each call (from, callerName)
  emitted,        \* messages sent by the last handler run, in order (and the
                  \* mark of assistant audio it withheld)
  sentKinds,      \* kinds of message sent by earlier handler runs
  greetings,      \* number of greeting response.create delivered to the model
  fires,          \* callSid -> number of auto-press TwiML redirects issued
  OUT_TG_ALLOWED, \* environment: the allow-listed chat id ("" when not set)
  OUT_TG_SECRET,  \* environment: the webhook secret ("" when not set)
  outboundPending,\* Map code -> pending outbound request
  outRuns,        \* outbound webhook handler runs suspended at an await
  created,        \* number of pending entries created so far
  placed,         \* number of call-create requests issued so far
  wire,           \* media socket -> the media events written to it, in order
  events,         \* callSid -> the transcript entries of the call, in order
                  \* (Untracked in the scenarios that are not about them)
  configs,        \* environment: the config documents the sheet may serve
  fetchFails,     \* environment: whether a config fetch may fail
  DEFAULT_VOICE,  \* environment: process.env.DEFAULT_VOICE ("" when not set)
  MALE_VOICE,     \* environment: process.env.MALE_VOICE ("" when not set)
  configCache,    \* _configCache: [when, data]
  cfgRuns,        \* getConfigCached calls of /warmup and of the outbound
                  \* channel that are suspended at their fetch
  selectedVoice,  \* connection closure: selectedVoice
  assistantName,  \* connection closure: assistantName
  callerVip,      \* connection closure: callerVip (<< >> when null)
  updates,        \* the session.update messages delivered to the model since
                  \* the start event: voice, assistant name, VIP
  restFails,      \* environment: whether twilioUpdateCallTwiml can throw
  pressFailed     \* the auto-presses whose REST call threw: [callSid, key, at]

vars == << now, ticks, twilioWS, aiWS, streamSid, currentCallSid, callerFrom,
           aiReady, openPc, startPc, transcripts, pressRateLimit,
           releaseTimers, idleRuns, pendingAcks, callInfo, emitted,
           sentKinds, greetings, fires, OUT_TG_ALLOWED, OUT_TG_SECRET,
           outboundPending, outRuns, created, placed, wire, events,
           configs, fetchFails, DEFAULT_VOICE, MALE_VOICE, configCache,
           cfgRuns, selectedVoice, assistantName, callerVip, updates,
           restFails, pressFailed >>

(***************************************************************************)
(* Bounds of the model.                                                    *)
(***************************************************************************)
MaxTicks == 3
\* pending outbound requests created in one behaviour
MaxCreated == 2
\* outbound webhook handler runs suspended at an await at one time
MaxRuns == 2
\* the number of transcript entries a call collects
MaxEvents == 3

(***************************************************************************)
(* Program constants (defaults of the environment configuration).          *)
(***************************************************************************)
TWILIO_ULAW_BYTES_PER_20MS == 160
IDLE_HANGUP_SECS == 180
IDLE_SEND_GOODBYE == TRUE
AUTO_DNC_ENABLE == TRUE
AUTO_DNC_ON_CNAM == TRUE
AUTO_DNC_ONLY_PHRASE == FALSE
AUTO_PRESS_CONFIDENCE == 90          \* 0.90, in hundredths
AUTO_PRESS_RATE_LIMIT_SECS == 21600  \* 6 * 60 * 60
NUMBER_SILENCE_GRACE_MS == 2500
NUMBER_MIN_DIGITS == 10
GREETING_FALLBACK_MS == 6000
BARGE_DEBOUNCE_MS == 250
BARGE_RELEASE_MS == 200
IDLE_GOODBYE_WAIT_MS == 1500

windowMs == AUTO_PRESS_RATE_LIMIT_SECS * 1000
idleMs == IDLE_HANGUP_SECS * 1000

\* The clock starts at an instant later than one rate-limit window after the
\* epoch, as Date.now() is: `pressRateLimit.get(key) || 0` and
\* `bargeIn.lastAt: 0` then read as "long ago".
StartClock == windowMs
\* The small clock step: half the barge-in release delay, so that instants
\* before and after the 200 ms release and the 250 ms debounce both occur.
TickMs == BARGE_RELEASE_MS \div 2

NULL == "null"
\* the value of `events` in the scenarios that leave the transcript entries out
Untracked == [c \in {"untracked"} |-> << >>]
NoTimer == -1

CallSids == {"CA1", "CA2"}
\* The media-socket connections of the framing scenario, each with the
\* streamSid its start event announced.
Conns == {"ws1", "ws2"}
\* The call the media-socket connection carries; the other call is seen
\* only by the /transcripts webhook.
StreamCallSid == "CA1"

(***************************************************************************)
(* Phone numbers are strings of characters; a number is a sequence of      *)
(* one-character strings.                                                  *)
(***************************************************************************)
DigitChars == {"0", "1", "2", "3", "4", "5", "6", "7", "8", "9"}
IsDigitChar(ch) == ch \in DigitChars

PhoneA == << "+", "1", "5", "5", "5", "1", "2", "3", "5", "6", "8", "0" >>
PhoneADashed == << "5", "5", "5", "-", "1", "2", "3", "-", "5", "6", "8", "0" >>
PhoneB == << "+", "1", "5", "5", "5", "9", "8", "7", "0", "0", "0", "1" >>
Froms == {PhoneA, PhoneADashed, PhoneB}

normalizeDigits(p) == SelectSeq(p, IsDigitChar)

normalizeLast10(p) ==
  LET d == normalizeDigits(p)
  IN  IF Len(d) = 0 THEN << >>
      ELSE IF Len(d) <= 10 THEN d
      ELSE SubSeq(d, Len(d) - 9, Len(d))

CallerNames == {"", "Spam Likely", "OUTBOUND"}

\* /spam|scam/.test(name.toLowerCase()) on the caller names of the model
isCnamSpam(name) == name = "Spam Likely"

(***************************************************************************)
(* The config provider and the voice of a call.                            *)
(***************************************************************************)
CONFIG_TTL_MS == 20000

\* _configCache.data before the first successful fetch (null)
NoConfig == [system_prompt |-> "(none)", vips |-> << >>]
\* the document the catch branch of getConfigCached returns on a cold cache
FallbackConfig == [system_prompt |-> "You are Trinity.", vips |-> << >>]
\* documents of the sheet: without VIPs, and with the caller as a VIP whose
\* voice_override column holds ov ("" when the column is empty)
SheetConfig == [system_prompt |-> "sheet", vips |-> << >>]
VipSheet(ov) ==
  [system_prompt |-> "sheet",
   vips |-> << [name |-> "jeff", phone |-> PhoneADashed, voice_override |-> ov] >>]
VoiceOverrides == {"", "male", "female", " Sage ", "siri"}
NewSheet == [system_prompt |-> "sheet v2", vips |-> << >>]

\* what a fetch comes to: a document of the sheet, or a failure
FetchOutcomes ==
  { [ok |-> TRUE, data |-> d] : d \in configs }
    \cup (IF fetchFails THEN { [ok |-> FALSE, data |-> NoConfig] } ELSE {})

\* !forceFresh && _configCache.data && now - _configCache.when < CONFIG_TTL_MS
cacheHit(cache, forceFresh) ==
  ~forceFresh /\ cache.data # NoConfig /\ now - cache.when < CONFIG_TTL_MS

\* a provider that lets the failure of the fetch through
fetchReturn_Propagates(cache, at, o) ==
  IF o.ok
  THEN [kind |-> "return", data |-> o.data, cache |-> [when |-> at, data |-> o.data]]
  ELSE [kind |-> "throw", data |-> NoConfig, cache |-> cache]

\* getConfigCached from the return of fetchConfigFresh on: the try and the
\* catch branch; `at` is the Date.now() taken when the call began
fetchReturn(cache, at, o) ==
  IF o.ok
  THEN [kind |-> "return", data |-> o.data, cache |-> [when |-> at, data |-> o.data]]
  ELSE [kind |-> "return",
        data |-> IF cache.data # NoConfig THEN cache.data ELSE FallbackConfig,
        cache |-> cache]

ALLOWED_VOICES == {"marin", "cedar", "echo", "alloy", "ash", "ballad", "coral",
                   "fable", "onyx", "nova", "sage", "shimmer", "verse"}

\* String.prototype.toLowerCase and trim on the texts of the model
toLowerCase(x) ==
  CASE x = "Cedar"  -> "cedar"
    [] x = " Sage " -> " sage "
    [] OTHER        -> x
trimVoice(x) == IF x = " Sage " THEN "Sage" ELSE IF x = " sage " THEN "sage" ELSE x

\* a selection that takes any override as it is written
chooseVoice_AnyOverride(defaultVoice, vip) ==
  IF vip = << >> \/ vip[1].voice_override = "" THEN "marin"
  ELSE toLowerCase(trimVoice(vip[1].voice_override))

\* chooseVoice(defaultVoice, vip); vip is << >> for null
chooseVoice(defaultVoice, vip) ==
  LET def == toLowerCase(IF defaultVoice = "" THEN "marin" ELSE defaultVoice)
      safeDefault == IF def \in ALLOWED_VOICES THEN def ELSE "marin"
      raw == toLowerCase(trimVoice(vip[1].voice_override))
      male == toLowerCase(IF MALE_VOICE = "" THEN "ballad" ELSE MALE_VOICE)
  IN  IF vip = << >> THEN safeDefault
      ELSE IF raw = "" THEN safeDefault
      ELSE IF raw = "male" THEN (IF male \in ALLOWED_VOICES THEN male ELSE "ballad")
      ELSE IF raw = "female" THEN safeDefault
      ELSE IF raw \in ALLOWED_VOICES THEN raw
      ELSE safeDefault

hasVipVoiceOverride(vip) ==
  LET raw == toLowerCase(trimVoice(vip[1].voice_override))
  IN  /\ raw # ""
      /\ raw \in {"male", "female"} \cup ALLOWED_VOICES

\* lower.charAt(0).toUpperCase() + lower.slice(1)
displayVoiceName(voice) ==
  CASE voice = "marin"   -> "Marin"
    [] voice = "cedar"   -> "Cedar"
    [] voice = "echo"    -> "Echo"
    [] voice = "alloy"   -> "Alloy"
    [] voice = "ash"     -> "Ash"
    [] voice = "ballad"  -> "Ballad"
    [] voice = "coral"   -> "Coral"
    [] voice = "fable"   -> "Fable"
    [] voice = "onyx"    -> "Onyx"
    [] voice = "nova"    -> "Nova"
    [] voice = "sage"    -> "Sage"
    [] voice = "shimmer" -> "Shimmer"
    [] voice = "verse"   -> "Verse"
    [] voice = ""        -> "Trinity"
    [] OTHER             -> voice

computeAssistantNameForCall(vip, chosenVoice) ==
  IF vip # << >> /\ hasVipVoiceOverride(vip) THEN displayVoiceName(chosenVoice)
  ELSE "Trinity"

\* matchVipByLast10(vips, from): the first VIP with the caller's last ten
\* digits, << >> when there is none or the caller number is empty
matchVipByLast10(vips, from) ==
  LET c10 == normalizeLast10(from)
      hits == SelectSeq(vips, LAMBDA v : normalizeLast10(v.phone) = c10)
  IN  IF c10 = << >> \/ hits = << >> THEN << >> ELSE << hits[1] >>


(***************************************************************************)
(* Caller utterances delivered by the transcription side-channel.  The     *)
(* tables below give, for each utterance of the model, the result of the   *)
(* regular expressions of the source on that text.                         *)
(***************************************************************************)
Lines == { "hello",
           "press nine to be removed",
           "press two to opt out",
           "press 9 to remove your number",
           "press 2 for sales",
           "five five five",
           "my number is five five five one two three four five six seven",
           "uh-huh",
           "one-two" }

\* what the assistant is heard saying on the outbound track
AssistantLines == { "hi, it's trinity. how can i help?", "sure, one moment",
                    "your number is 555-1234" }

\* the (Track, text) pairs the webhook receives; "" is an empty line
TranscriptInputs ==
  ({"inbound_track"} \X (Lines \cup {""})) \cup ({"outbound_track"} \X AssistantLines)


\* isGreeting: the normalized text contains "it's trinity", "this is trinity", ...
isGreeting(line) == line = "hi, it's trinity. how can i help?"

\* /\b(press|dial|hit|enter|push|tap)\s*([0-9])\b/ then the word form
extractPressDigit(text) ==
  CASE text = "press nine to be removed"      -> "9"
    [] text = "press two to opt out"          -> "2"
    [] text = "press 9 to remove your number" -> "9"
    [] text = "press 2 for sales"             -> "2"
    [] OTHER                                  -> NULL

\* STRONG_REMOVAL_PATTERNS.some(rx => rx.test(t))
strongRemoval(text) ==
  text \in {"press nine to be removed", "press two to opt out"}

\* a strong pattern, or one of REMOVAL_KEYWORDS is a substring
hasRemovalIntent(text) ==
  strongRemoval(text) \/ text = "press 9 to remove your number"

inferAutoPressAction(text, callerName) ==
  LET digit == extractPressDigit(text)
  IN  IF digit = NULL THEN [digit |-> NULL, confidence |-> 0]
      ELSE IF strongRemoval(text) THEN [digit |-> digit, confidence |-> 97]
      ELSE IF hasRemovalIntent(text) THEN [digit |-> digit, confidence |-> 94]
      ELSE IF isCnamSpam(callerName) THEN [digit |-> digit, confidence |-> 90]
      ELSE [digit |-> digit, confidence |-> 35]

\* digits written as numerals, then the spoken digit words (WORD_TO_DIGIT,
\* in which "for" is 4), in the order the source appends them
extractDigits(text) ==
  CASE text = "press nine to be removed"      -> "9"
    [] text = "press two to opt out"          -> "2"
    [] text = "press 9 to remove your number" -> "9"
    [] text = "press 2 for sales"             -> "24"
    [] text = "five five five"                -> "555"
    [] text = "my number is five five five one two three four five six seven"
                                              -> "5551234567"
    [] text = "one-two"                       -> "12"
    [] text = "your number is 555-1234"       -> "5551234"
    [] OTHER                                  -> ""

\* /[\-\(\)]/.test(text)
hasPhonePunct(text) ==
  text \in {"uh-huh", "one-two", "your number is 555-1234", "hold on-"}

\* the caller lines an auto-press can come from, and those reciting digits
PressInputs == { i \in TranscriptInputs : i[1] = "inbound_track" /\ extractPressDigit(i[2]) # NULL }
RateInputs == {"inbound_track"} \X {"press nine to be removed", "press 2 for sales"}
NumberInputs == {"inbound_track"} \X {"hello", "five five five",
                   "my number is five five five one two three four five six seven"}
\* lines on both tracks with and without digits and phone punctuation
EntryInputs ==
  ({"inbound_track"} \X {"hello", "uh-huh", "one-two", "five five five"})
    \cup ({"outbound_track"} \X {"sure, one moment", "your number is 555-1234"})

(***************************************************************************)
(* The call state store.                                                   *)
(***************************************************************************)
\* the defaults getState() inserts for an unknown callSid
NewState ==
  [ greetingSkipped |-> FALSE,
    meta |-> [ from |-> << >>, callerName |-> "",
               outbound |-> [ isOutbound |-> FALSE ] ],
    idleTimer |-> NoTimer,
    aiWS |-> FALSE,          \* whether the socket references are set
    twilioWS |-> FALSE,
    dnc |-> [ attempted |-> FALSE ],
    numberMode |-> [ active |-> FALSE, digits |-> 0, timer |-> NoTimer ],
        \* numberMode.digits is kept as its length, the only thing read of it
    muteAssistant |-> FALSE,
    greetedOnce |-> FALSE,
    greetingPending |-> FALSE,
    greetingTimer |-> NoTimer,
    aiSessionReady |-> FALSE,
    selectedVoice |-> "marin",
    assistantName |-> "Trinity",
    bargeIn |-> [ active |-> FALSE, lastAt |-> 0 ] ]

\* getState(callSid): the entry, created with the defaults when missing
getState(callSid) ==
  IF callSid \in DOMAIN transcripts THEN transcripts[callSid] ELSE NewState

\* bumpActivity / resetIdleTimer: clear the idle timer and arm a new one
resetIdleTimer(s) == [s EXCEPT !.idleTimer = now + idleMs]

bumpActivity(s) == resetIdleTimer(s)

(***************************************************************************)
(* Messages.  A socket message is <<channel, event>>, a REST request is    *)
(* <<"rest", request, callSid>>.  ws.send delivers only on an OPEN socket: *)
(* on a CONNECTING socket it throws (the callers that can reach it catch), *)
(* on a CLOSING or CLOSED socket the message is dropped.                   *)
(***************************************************************************)
Msg(ch, ev) == << ch, ev >>
Rest(ev, callSid) == << "rest", ev, callSid >>

AiSend(msgs) == IF aiWS = "OPEN" THEN msgs ELSE << >>
TwilioSend(msgs) == IF twilioWS = "OPEN" THEN msgs ELSE << >>

Range(seq) == { seq[i] : i \in DOMAIN seq }
CountEv(seq, ev) == Cardinality({ i \in DOMAIN seq : seq[i][2] = ev })


(***************************************************************************)
(* Number-mode controller.                                                 *)
(***************************************************************************)
\* exitNumberMode releasing the mute without looking at barge-in
exitNumberMode_Unconditional(s) ==
  IF ~s.numberMode.active THEN s
  ELSE [s EXCEPT !.numberMode.active = FALSE,
                 !.muteAssistant = FALSE,
                 !.numberMode.timer = NoTimer]

\* exitNumberMode that leaves the mute as it is
exitNumberMode_KeepMute(s) ==
  IF ~s.numberMode.active THEN s
  ELSE [s EXCEPT !.numberMode.active = FALSE,
                 !.numberMode.timer = NoTimer]

exitNumberMode(s) ==
  IF ~s.numberMode.active THEN s
  ELSE [s EXCEPT !.numberMode.active = FALSE,
                 !.muteAssistant = IF ~s.bargeIn.active THEN FALSE ELSE @,
                 !.numberMode.timer = NoTimer]

maybeEnterNumberMode(s, text) ==
  LET found == extractDigits(text)
      s1 == IF ~s.numberMode.active /\ (Len(found) >= 3 \/ hasPhonePunct(text))
            THEN [s EXCEPT !.numberMode.active = TRUE,
                           !.muteAssistant = TRUE,
                           !.numberMode.digits = 0]
            ELSE s
      s2 == [s1 EXCEPT !.numberMode.digits = @ + Len(found),
                       !.numberMode.timer = now + NUMBER_SILENCE_GRACE_MS]
  IN  IF found = "" THEN s
      ELSE IF ~s1.numberMode.active THEN s1
      ELSE IF s2.numberMode.digits >= NUMBER_MIN_DIGITS
           THEN exitNumberMode(s2)
           ELSE s2

(***************************************************************************)
(* Auto-press engine.                                                      *)
(***************************************************************************)
PressDigits == {"9", "2", "default"}

rateKey(from, digit) ==
  << IF normalizeLast10(from) = << >> THEN << "unknown" >>
     ELSE normalizeLast10(from),
     digit >>

RateKeys == { rateKey(f, d) : f \in Froms \cup {<< >>}, d \in PressDigits }

\* canAutoPressNow recording the attempt even when it rejects it
canAutoPressNow_StampAlways(from, digit) ==
  LET key == rateKey(from, digit)
  IN  [ok |-> ~(now - pressRateLimit[key] < windowMs),
       map |-> [pressRateLimit EXCEPT ![key] = now]]

\* the mark left in emitted by a run whose auto-press the rate limiter rejected
RateLimited == Msg("none", "press.rate-limited")

\* canAutoPressNow: the answer, and the map after the call
canAutoPressNow(from, digit) ==
  LET key == rateKey(from, digit)
      prev == pressRateLimit[key]
  IN  IF now - prev < windowMs
      THEN [ok |-> FALSE, map |-> pressRateLimit]
      ELSE [ok |-> TRUE, map |-> [pressRateLimit EXCEPT ![key] = now]]

\* the part common to sendAutoPressAndMaybeHangup and
\* sendDefaultDncDigitsAndMaybeHangup, up to the await of the REST call:
\* the state, the rate-limit map, the REST request issued, whether it fired
\* the same without the latch
autoPress_NoLatch(s, callSid, from, digit) ==
  LET rl == canAutoPressNow(from, digit)
  IN  IF ~rl.ok
      THEN [s |-> s, map |-> pressRateLimit, out |-> << >>, fired |-> FALSE]
      ELSE [s |-> s, map |-> rl.map,
            out |-> << Rest("twiml", callSid) >>, fired |-> TRUE]

autoPress(s, callSid, from, digit) ==
  LET rl == canAutoPressNow(from, digit)
      nothing == [s |-> s, map |-> pressRateLimit, out |-> << >>, fired |-> FALSE]
  IN  IF s.dnc.attempted THEN nothing
      ELSE IF ~rl.ok THEN [nothing EXCEPT !.map = rl.map, !.out = << RateLimited >>]
      ELSE [s |-> [s EXCEPT !.dnc.attempted = TRUE],
            map |-> rl.map,
            out |-> << Rest("twiml", callSid) >>,
            fired |-> TRUE]

\* The note left in emitted with the redirect of a fire: what decided it.
\* A phrase fire carries the digit and the classifier's confidence for the
\* caller line; the default-digits fire of 'start' has no caller line.
PhraseFire(digit, confidence) == << "fire", "phrase", digit, confidence >>
DefaultFire == << "fire", "default", "default" >>

noted(r, note) == IF r.fired THEN [r EXCEPT !.out = @ \o << note >>] ELSE r

sendAutoPressAndMaybeHangup(s, callSid, from, digit) ==
  autoPress(s, callSid, from, digit)

sendDefaultDncDigitsAndMaybeHangup(s, callSid) ==
  autoPress(s, callSid, s.meta.from, "default")

\* what twilioUpdateCallTwiml can do: return, or throw when the provider
\* rejects the request or cannot be reached
RestOutcomes == IF restFails THEN {"ok", "failed"} ELSE {"ok"}

\* the log line of the catch block around the REST call
PressFailed == Msg("none", "press.failed")

\* a catch block that takes the attempt back: the latch is cleared and the
\* rate-limit entry deleted
restSettled_Rollback(s, map, key, o) ==
  IF o = "failed"
  THEN [s |-> [s EXCEPT !.dnc.attempted = FALSE],
        map |-> [map EXCEPT ![key] = 0],
        out |-> << PressFailed >>]
  ELSE [s |-> s, map |-> map, out |-> << >>]

\* try { await twilioUpdateCallTwiml(...) } catch (e) { console.log(...) }:
\* the state and the rate-limit map after the REST call settled with o
restSettled(s, map, key, o) ==
  [s |-> s, map |-> map,
   out |-> IF o = "failed" THEN << PressFailed >> ELSE << >>]

\* the record of an auto-press whose REST call threw
failedPress(callSid, key, o) ==
  IF o = "failed"
  THEN pressFailed \cup {[callSid |-> callSid, key |-> key, at |-> pressRateLimit'[key]]}
  ELSE pressFailed

(***************************************************************************)
(* Greeting scheduler.                                                     *)
(***************************************************************************)
\* trySendGreetingNow that does not wait for the session on inbound calls
trySendGreetingNow_NoSessionWait(s) ==
  IF s.greetedOnce \/ ~s.greetingPending
  THEN [s |-> s, out |-> << >>]
  ELSE [s |-> [s EXCEPT !.greetedOnce = TRUE,
                        !.greetingPending = FALSE,
                        !.greetingTimer = NoTimer],
        out |-> AiSend(<< Msg("ai", "greeting") >>)]

\* trySendGreetingNow that leaves the fallback timer running
trySendGreetingNow_KeepTimer(s) ==
  IF s.greetedOnce \/ ~s.greetingPending
       \/ (~s.aiSessionReady /\ ~s.meta.outbound.isOutbound)
  THEN [s |-> s, out |-> << >>]
  ELSE [s |-> [s EXCEPT !.greetedOnce = TRUE,
                        !.greetingPending = FALSE],
        out |-> AiSend(<< Msg("ai", "greeting") >>)]

\* returns the state and the messages delivered to the model
trySendGreetingNow(s) ==
  IF s.greetedOnce \/ ~s.greetingPending
     \/ (~s.aiSessionReady /\ ~s.meta.outbound.isOutbound)
  THEN [s |-> s, out |-> << >>]
  ELSE [s |-> [s EXCEPT !.greetedOnce = TRUE,
                        !.greetingPending = FALSE,
                        !.greetingTimer = NoTimer],
        out |-> AiSend(<< Msg("ai", "greeting") >>)]

scheduleGreetingAttempt(s) ==
  trySendGreetingNow([s EXCEPT !.greetingPending = TRUE,
                               !.greetingTimer = now + GREETING_FALLBACK_MS])

(***************************************************************************)
(* Barge-in controller.                                                    *)
(***************************************************************************)
twilioClearBufferedAudio ==
  IF streamSid = NULL THEN << >> ELSE TwilioSend(<< Msg("twilio", "clear") >>)

debounced(s) == s.bargeIn.active /\ now - s.bargeIn.lastAt < BARGE_DEBOUNCE_MS

handleBargeInStart(s) ==
  IF debounced(s) THEN [s |-> s, out |-> << >>]
  ELSE [s |-> [s EXCEPT !.bargeIn.active = TRUE,
                        !.bargeIn.lastAt = now,
                        !.muteAssistant = TRUE],
        out |-> twilioClearBufferedAudio
                \o AiSend(<< Msg("ai", "response.cancel"),
                             Msg("ai", "output_audio_buffer.clear") >>)]

\* the state part of handleBargeInStop; the action arms the release timeout
handleBargeInStop(s) == [s EXCEPT !.bargeIn.active = FALSE]

\* a release timeout whose callback leaves the mute as it is
bargeInRelease_KeepsMute(s) == s

\* the release timeout's callback
bargeInRelease(s) ==
  IF s.numberMode.active \/ s.bargeIn.active THEN s
  ELSE [s EXCEPT !.muteAssistant = FALSE]

(***************************************************************************)
(* Codec bridge: the media events one audio delta of n bytes produces.     *)
(***************************************************************************)
DeltaSizes == {0, 160, 200}

RECURSIVE chunkFrom(_, _)
chunkFrom(off, n) ==
  IF off >= n THEN << >>
  ELSE << Msg("twilio", "media") >> \o chunkFrom(off + TWILIO_ULAW_BYTES_PER_20MS, n)

chunkAndSendUlawBase64ToTwilio(n) == TwilioSend(chunkFrom(0, n))


(***************************************************************************)
(* Initial state: the server is listening, no connection, an empty store.  *)
(* The telephony provider's view of each call (its From number and caller  *)
(* name) is fixed per call and carried by the start event's custom         *)
(* parameters and by the query string of every /transcripts callback.      *)
(***************************************************************************)
InitBridge ==
  /\ now = StartClock
  /\ ticks = 0
  /\ twilioWS = "NONE"
  /\ aiWS = "NONE"
  /\ streamSid = NULL
  /\ currentCallSid = NULL
  /\ callerFrom = << >>
  /\ aiReady = FALSE
  /\ openPc = "idle"
  /\ startPc = "idle"
  /\ transcripts = [c \in {} |-> NewState]
  /\ pressRateLimit = [k \in RateKeys |-> 0]
  /\ releaseTimers = {}
  /\ idleRuns = {}
  /\ pendingAcks = 0
  /\ emitted = << >>
  /\ sentKinds = {}
  /\ greetings = 0
  /\ fires = [c \in CallSids |-> 0]
  /\ outboundPending = [c \in {} |-> NULL]
  /\ outRuns = {}
  /\ created = 0
  /\ placed = 0
  /\ wire = [c \in Conns |-> << >>]
  /\ configCache = [when |-> 0, data |-> NoConfig]
  /\ cfgRuns = << >>
  /\ selectedVoice = "marin"
  /\ assistantName = "Trinity"
  /\ callerVip = << >>
  /\ updates = << >>
  /\ pressFailed = {}

\* the bridge with the outbound command channel not configured
\* the sheet serves one document without VIPs, fetches succeed, and the
\* voice variables of the environment are not set
InitPlainConfig ==
  /\ configs = {SheetConfig}
  /\ fetchFails = FALSE
  /\ DEFAULT_VOICE = ""
  /\ MALE_VOICE = ""

\* the bridge without the outbound command channel and without transcript
\* entries
InitBridgeOnly ==
  /\ InitBridge
  /\ InitPlainConfig
  /\ events = Untracked
  /\ OUT_TG_ALLOWED = ""
  /\ OUT_TG_SECRET = ""

\* the same with a provider whose call-update requests always return
InitCommon ==
  /\ InitBridgeOnly
  /\ restFails = FALSE

Init ==
  /\ InitCommon
  /\ callInfo \in [CallSids -> [from : {PhoneA}, callerName : CallerNames]]
  /\ callInfo["CA2"].callerName = ""

\* the kinds of message whose earlier sending is remembered
TrackedKinds == {"session.update"}

envVars == << configs, fetchFails, DEFAULT_VOICE, MALE_VOICE, restFails >>
voiceVars == << configCache, selectedVoice, assistantName, callerVip, updates >>

\* bookkeeping of the messages sent by a handler run
outVars == << OUT_TG_ALLOWED, OUT_TG_SECRET, outboundPending, outRuns,
             created, placed >>

\* bookkeeping of the messages sent by a handler run of the bridge; the
\* bridge's handlers do not touch the outbound command channel
Send(out) ==
  /\ emitted' = out
  /\ sentKinds' = sentKinds \cup ({ m[2] : m \in Range(emitted) } \cap TrackedKinds)
  /\ greetings' = greetings + CountEv(out, "greeting")
  /\ UNCHANGED << outVars, wire, envVars, cfgRuns >>

\* the same for the handlers that do not write transcript entries and do
\* not configure the session
Emit(out) == Send(out) /\ UNCHANGED << events, voiceVars, pressFailed >>

connVars == << twilioWS, aiWS, streamSid, currentCallSid, callerFrom, aiReady,
               openPc, startPc >>
timeVars == << now, ticks >>

\* the store after a handler wrote state s for callSid
Put(callSid, s) ==
  [c \in DOMAIN transcripts \cup {callSid} |->
     IF c = callSid THEN s ELSE transcripts[c]]

(***************************************************************************)
(* wss.on('connection'): the telephony socket is open; the model socket    *)
(* is created and connecting.                                              *)
(***************************************************************************)
WsConnection ==
  /\ twilioWS = "NONE"
  /\ twilioWS' = "OPEN"
  /\ aiWS' = "CONNECTING"
  /\ Emit(<< >>)
  /\ UNCHANGED << timeVars, streamSid, currentCallSid, callerFrom, aiReady,
                  openPc, startPc, transcripts, pressRateLimit, releaseTimers,
                  idleRuns, pendingAcks, callInfo, fires >>

(***************************************************************************)
(* applySessionConfig, after its config fetch returned: the state entry of *)
(* the current call is touched and session.update is sent.                 *)
(***************************************************************************)
applySessionConfigSend == AiSend(<< Msg("ai", "session.update") >>)

applySessionConfigStore ==
  IF currentCallSid = NULL THEN transcripts
  ELSE Put(currentCallSid, getState(currentCallSid))

\* the value getConfigCached hands to applySessionConfig when its fetch came
\* to o, and the cache it leaves.  _configCache.when is followed in the
\* provider scenario only: the bridge reads it at no point where the cache
\* holds a document.
sessionConfig(o) ==
  LET r == fetchReturn(configCache, configCache.when, o)
  IN  [data |-> r.data, cache |-> r.cache]

\* applySessionConfig after the fetch: the VIP, the voice and the assistant
\* name are computed from the document and the caller number, written to
\* the closure and to the state entry of the current call, and sent
applySessionConfigVoice(s, config) ==
  LET vip == matchVipByLast10(config.vips, callerFrom)
      voice == chooseVoice(DEFAULT_VOICE, vip)
      name == computeAssistantNameForCall(vip, voice)
  IN  [vip |-> vip, voice |-> voice, name |-> name,
       s |-> [s EXCEPT !.selectedVoice = voice, !.assistantName = name]]

\* the closure and the log of delivered session.update messages after
\* applySessionConfig ran with v
SessionConfigured(v) ==
  /\ callerVip' = v.vip
  /\ selectedVoice' = v.voice
  /\ assistantName' = v.name
  /\ updates' = IF applySessionConfigSend = << >> THEN updates
                ELSE Append(updates, [voice |-> v.voice, name |-> v.name,
                                      vip |-> v.vip])

\* aiWS.on('open'), up to its first await
AiOpen ==
  /\ aiWS = "CONNECTING"
  /\ aiWS' = "OPEN"
  /\ aiReady' = TRUE
  /\ openPc' = "cfg"
  /\ Emit(<< >>)
  /\ UNCHANGED << timeVars, twilioWS, streamSid, currentCallSid, callerFrom,
                  startPc, transcripts, pressRateLimit, releaseTimers,
                  idleRuns, pendingAcks, callInfo, fires >>

\* aiWS.on('open'), after getConfigCached returned: applySessionConfig('on-open').
\* The handler's two successive awaits of getConfigCached change nothing in
\* between, so they are one step here.
AiOpenConfigDone ==
  /\ openPc = "cfg"
  /\ openPc' = "done"
  /\ \E o \in FetchOutcomes :
       LET cfg == sessionConfig(o)
           v == applySessionConfigVoice(getState(currentCallSid), cfg.data)
       IN  /\ configCache' = cfg.cache
           /\ transcripts' = IF currentCallSid = NULL THEN transcripts
                             ELSE Put(currentCallSid, v.s)
           /\ SessionConfigured(v)
  /\ Send(applySessionConfigSend)
  /\ UNCHANGED << events, pressFailed >>
  /\ pendingAcks' = pendingAcks + Len(applySessionConfigSend)
  /\ UNCHANGED << timeVars, twilioWS, aiWS, streamSid, currentCallSid,
                  callerFrom, aiReady, startPc, pressRateLimit, releaseTimers,
                  idleRuns, callInfo, fires >>


(***************************************************************************)
(* twilioWS.on('message'), case 'start'.  The handler is async: it awaits  *)
(* the REST call of the default-digits auto-press (when it fires) and the  *)
(* forced config fetch of applySessionConfig('on-start') (when aiReady).   *)
(***************************************************************************)
\* the synchronous part: identifiers, socket references, meta, idle timer,
\* reset of the greeting latch
startRecord(s, from, callerNameParam) ==
  [s EXCEPT !.aiWS = TRUE,
            !.twilioWS = TRUE,
            !.meta.from = IF from # << >> /\ @ = << >> THEN from ELSE @,
            !.meta.callerName =
                IF callerNameParam # "" /\ @ = "" THEN callerNameParam ELSE @,
            !.idleTimer = now + idleMs,
            !.meta.outbound.isOutbound = (callerNameParam = "OUTBOUND"),
            !.aiSessionReady = FALSE,
            !.greetedOnce = FALSE,
            !.greetingPending = FALSE,
            !.greetingTimer = NoTimer,
            !.selectedVoice = "marin",
            !.assistantName = "Trinity"]

\* the end of the handler: input_audio_buffer.clear when the model socket
\* is open, then scheduleGreetingAttempt
startFinish(s) ==
  LET g == scheduleGreetingAttempt(s)
  IN  [ s |-> g.s,
        out |-> AiSend(<< Msg("ai", "input_audio_buffer.clear") >>) \o g.out,
        pc |-> "done" ]

\* the call of applySessionConfig('on-start'): it returns at once unless aiReady
startApplyConfig(s) ==
  IF aiReady THEN [s |-> s, out |-> << >>, pc |-> "cfg"] ELSE startFinish(s)

\* the default-digits auto-press on a spam caller name
startAutoDnc(s, callSid) ==
  IF AUTO_DNC_ENABLE /\ AUTO_DNC_ON_CNAM /\ ~AUTO_DNC_ONLY_PHRASE
     /\ isCnamSpam(s.meta.callerName)
  THEN noted(sendDefaultDncDigitsAndMaybeHangup(s, callSid), DefaultFire)
  ELSE [s |-> s, map |-> pressRateLimit, out |-> << >>, fired |-> FALSE]

TwilioStart ==
  /\ twilioWS = "OPEN"
  /\ streamSid = NULL
  /\ LET callSid == StreamCallSid
         from == callInfo[callSid].from
         s1 == startRecord(getState(callSid), from, callInfo[callSid].callerName)
         d == startAutoDnc(s1, callSid)
         c == IF d.fired THEN [s |-> d.s, out |-> << >>, pc |-> "dnc_rest"]
              ELSE startApplyConfig(d.s)
     IN  /\ streamSid' = "MZ1"
         /\ currentCallSid' = callSid
         /\ callerFrom' = from
         /\ transcripts' = Put(callSid, c.s)
         /\ pressRateLimit' = d.map
         /\ fires' = IF d.fired THEN [fires EXCEPT ![callSid] = @ + 1] ELSE fires
         /\ startPc' = c.pc
         /\ Send(d.out \o c.out)
         /\ selectedVoice' = "marin"
         /\ assistantName' = "Trinity"
         /\ updates' = << >>
         /\ UNCHANGED << events, configCache, callerVip, pressFailed >>
  /\ UNCHANGED << timeVars, twilioWS, aiWS, aiReady, openPc, releaseTimers,
                  idleRuns, pendingAcks, callInfo >>

\* 'start', after the auto-press REST call returned
StartDncRestDone ==
  /\ startPc = "dnc_rest"
  /\ \E o \in RestOutcomes :
       LET s == getState(currentCallSid)
           key == rateKey(s.meta.from, "default")
           d == restSettled(s, pressRateLimit, key, o)
           c == startApplyConfig(d.s)
       IN  /\ transcripts' = Put(currentCallSid, c.s)
           /\ pressRateLimit' = d.map
           /\ pressFailed' = failedPress(currentCallSid, key, o)
           /\ startPc' = c.pc
           /\ Send(d.out \o c.out)
  /\ UNCHANGED << events, voiceVars >>
  /\ UNCHANGED << timeVars, twilioWS, aiWS, streamSid, currentCallSid,
                  callerFrom, aiReady, openPc, releaseTimers,
                  idleRuns, pendingAcks, callInfo, fires >>

\* 'start', after the config fetch of applySessionConfig('on-start') returned
StartConfigDone ==
  /\ startPc = "cfg"
  /\ \E o \in FetchOutcomes :
       LET cfg == sessionConfig(o)
           v == applySessionConfigVoice(getState(currentCallSid), cfg.data)
           c == startFinish(v.s)
       IN  /\ configCache' = cfg.cache
           /\ SessionConfigured(v)
           /\ transcripts' = Put(currentCallSid, c.s)
           /\ startPc' = c.pc
           /\ Send(applySessionConfigSend \o c.out)
           /\ UNCHANGED << events, pressFailed >>
           /\ pendingAcks' = pendingAcks + Len(applySessionConfigSend)
  /\ UNCHANGED << timeVars, twilioWS, aiWS, streamSid, currentCallSid,
                  callerFrom, aiReady, openPc, pressRateLimit, releaseTimers,
                  idleRuns, callInfo, fires >>

(***************************************************************************)
(* twilioWS.on('message'), cases 'media' and 'stop'; twilioWS.on('close'). *)
(* The provider sends media and stop only after start.                     *)
(***************************************************************************)
TwilioMedia ==
  /\ twilioWS = "OPEN"
  /\ streamSid # NULL
  /\ IF aiWS = "OPEN"
     THEN /\ Emit(<< Msg("ai", "input_audio_buffer.append") >>)
          /\ transcripts' = IF currentCallSid = NULL THEN transcripts
                            ELSE Put(currentCallSid,
                                     bumpActivity(getState(currentCallSid)))
     ELSE /\ Emit(<< >>)
          /\ UNCHANGED transcripts
  /\ UNCHANGED << timeVars, connVars, pressRateLimit, releaseTimers, idleRuns,
                  pendingAcks, callInfo, fires >>

TwilioStop ==
  /\ twilioWS = "OPEN"
  /\ streamSid # NULL
  /\ twilioWS' = "CLOSING"
  /\ Emit(<< >>)
  /\ UNCHANGED << timeVars, aiWS, streamSid, currentCallSid, callerFrom,
                  aiReady, openPc, startPc, transcripts, pressRateLimit,
                  releaseTimers, idleRuns, pendingAcks, callInfo, fires >>

\* the socket is closed (the close handshake ended, or the caller hung up);
\* the handler only logs
TwilioClose ==
  /\ twilioWS \in {"OPEN", "CLOSING"}
  /\ twilioWS' = "CLOSED"
  /\ Emit(<< >>)
  /\ UNCHANGED << timeVars, aiWS, streamSid, currentCallSid, callerFrom,
                  aiReady, openPc, startPc, transcripts, pressRateLimit,
                  releaseTimers, idleRuns, pendingAcks, callInfo, fires >>

\* aiWS.on('close'): the model socket is closed; the handler only logs
AiClose ==
  /\ aiWS \in {"CONNECTING", "OPEN", "CLOSING"}
  /\ aiWS' = "CLOSED"
  /\ pendingAcks' = 0
  /\ Emit(<< >>)
  /\ UNCHANGED << timeVars, twilioWS, streamSid, currentCallSid, callerFrom,
                  aiReady, openPc, startPc, transcripts, pressRateLimit,
                  releaseTimers, idleRuns, callInfo, fires >>


(***************************************************************************)
(* aiWS.on('message').  Everything is dropped until the telephony start    *)
(* event has set streamSid.  The model acknowledges each session.update    *)
(* it received with one session.updated; speech and audio events come at   *)
(* any time.  Messages still arrive while the socket is closing.           *)
(***************************************************************************)
aiReceiving == aiWS \in {"OPEN", "CLOSING"}

\* a session.updated handler that marks the session ready and leaves the
\* greeting to the fallback timer
AiSessionUpdated_NoAttempt ==
  /\ aiReceiving
  /\ pendingAcks > 0
  /\ pendingAcks' = pendingAcks - 1
  /\ IF streamSid = NULL \/ currentCallSid = NULL
     THEN /\ Emit(<< >>)
          /\ UNCHANGED transcripts
     ELSE /\ transcripts' = Put(currentCallSid,
                [getState(currentCallSid) EXCEPT !.aiSessionReady = TRUE])
          /\ Emit(<< >>)
  /\ UNCHANGED << timeVars, connVars, pressRateLimit, releaseTimers, idleRuns,
                  callInfo, fires >>

AiSessionUpdated ==
  /\ aiReceiving
  /\ pendingAcks > 0
  /\ pendingAcks' = pendingAcks - 1
  /\ IF streamSid = NULL \/ currentCallSid = NULL
     THEN /\ Emit(<< >>)
          /\ UNCHANGED transcripts
     ELSE LET g == trySendGreetingNow(
                     [getState(currentCallSid) EXCEPT !.aiSessionReady = TRUE])
          IN  /\ transcripts' = Put(currentCallSid, g.s)
              /\ Emit(g.out)
  /\ UNCHANGED << timeVars, connVars, pressRateLimit, releaseTimers, idleRuns,
                  callInfo, fires >>

AiSpeechStarted ==
  /\ aiReceiving
  /\ IF streamSid = NULL \/ currentCallSid = NULL
     THEN /\ Emit(<< >>)
          /\ UNCHANGED transcripts
     ELSE LET b == handleBargeInStart(getState(currentCallSid))
          IN  /\ transcripts' = Put(currentCallSid, bumpActivity(b.s))
              /\ Emit(b.out)
  /\ UNCHANGED << timeVars, connVars, pressRateLimit, releaseTimers, idleRuns,
                  pendingAcks, callInfo, fires >>

AiSpeechStopped ==
  /\ aiReceiving
  /\ IF streamSid = NULL \/ currentCallSid = NULL
     THEN UNCHANGED << transcripts, releaseTimers >>
     ELSE /\ transcripts' = Put(currentCallSid,
                 bumpActivity(handleBargeInStop(getState(currentCallSid))))
          /\ releaseTimers' = releaseTimers \cup {now + BARGE_RELEASE_MS}
  /\ Emit(<< >>)
  /\ UNCHANGED << timeVars, connVars, pressRateLimit, idleRuns, pendingAcks,
                  callInfo, fires >>

\* the mark left in emitted by a handler run that withheld assistant audio
AudioDropped == Msg("none", "audio.dropped")

\* an audio-delta handler without the `if (!streamSid) return` of the
\* message handler
AiAudioDelta_NoStreamGuard(n) ==
  /\ aiReceiving
  /\ IF currentCallSid # NULL /\ getState(currentCallSid).muteAssistant
     THEN /\ Emit(<< AudioDropped >>)
          /\ transcripts' = Put(currentCallSid, getState(currentCallSid))
     ELSE IF n = 0
     THEN /\ Emit(<< >>)
          /\ UNCHANGED transcripts
     ELSE /\ Emit(chunkAndSendUlawBase64ToTwilio(n))
          /\ transcripts' = IF currentCallSid = NULL THEN transcripts
                            ELSE Put(currentCallSid,
                                     bumpActivity(getState(currentCallSid)))
  /\ UNCHANGED << timeVars, connVars, pressRateLimit, releaseTimers, idleRuns,
                  pendingAcks, callInfo, fires >>

\* response.audio.delta / response.output_audio.delta carrying n bytes
AiAudioDelta(n) ==
  /\ aiReceiving
  /\ IF streamSid = NULL \/ currentCallSid = NULL
     THEN /\ Emit(<< >>)
          /\ UNCHANGED transcripts
     ELSE IF getState(currentCallSid).muteAssistant
     THEN /\ Emit(<< AudioDropped >>)
          /\ transcripts' = Put(currentCallSid, getState(currentCallSid))
     ELSE IF n = 0
     THEN /\ Emit(<< >>)
          /\ transcripts' = Put(currentCallSid, getState(currentCallSid))
     ELSE /\ Emit(chunkAndSendUlawBase64ToTwilio(n))
          /\ transcripts' = Put(currentCallSid,
                                bumpActivity(getState(currentCallSid)))
  /\ UNCHANGED << timeVars, connVars, pressRateLimit, releaseTimers, idleRuns,
                  pendingAcks, callInfo, fires >>

\* a binary message: n bytes of PCM16 at 16 kHz, sent as n/4 bytes of mu-law
sendPcm16kBinaryToTwilioAsUlaw(n) == TwilioSend(chunkFrom(0, (n \div 2) \div 2))

BinarySizes == {640}

AiBinary(n) ==
  /\ aiReceiving
  /\ IF streamSid = NULL \/ currentCallSid = NULL
     THEN /\ Emit(<< >>)
          /\ UNCHANGED transcripts
     ELSE IF getState(currentCallSid).muteAssistant
     THEN /\ Emit(<< AudioDropped >>)
          /\ transcripts' = Put(currentCallSid, getState(currentCallSid))
     ELSE /\ Emit(sendPcm16kBinaryToTwilioAsUlaw(n))
          /\ transcripts' = Put(currentCallSid,
                                bumpActivity(getState(currentCallSid)))
  /\ UNCHANGED << timeVars, connVars, pressRateLimit, releaseTimers, idleRuns,
                  pendingAcks, callInfo, fires >>


(***************************************************************************)
(* Timers.                                                                 *)
(***************************************************************************)
Known == DOMAIN transcripts

Due(d) == d # NoTimer /\ now >= d

closeWs(st) == IF st \in {"CONNECTING", "OPEN"} THEN "CLOSING" ELSE st

\* triggerIdle that does not sleep after the goodbye
IdleTimerFire_NoSleep(c) ==
  /\ c \in Known
  /\ Due(transcripts[c].idleTimer)
  /\ LET s == transcripts[c]
     IN  /\ transcripts' = Put(c, [s EXCEPT !.idleTimer = NoTimer])
         /\ IF s.dnc.attempted
            THEN /\ Emit(<< >>)
                 /\ UNCHANGED idleRuns
            ELSE IF IDLE_SEND_GOODBYE /\ s.aiWS /\ aiWS = "OPEN"
            THEN /\ Emit(<< Msg("ai", "goodbye"), Rest("hangup", c) >>)
                 /\ idleRuns' = idleRuns \cup
                      {[call |-> c, pc |-> "rest", due |-> NoTimer]}
            ELSE /\ Emit(<< Rest("hangup", c) >>)
                 /\ idleRuns' = idleRuns \cup
                      {[call |-> c, pc |-> "rest", due |-> NoTimer]}
  /\ UNCHANGED << timeVars, connVars, pressRateLimit, releaseTimers,
                  pendingAcks, callInfo, fires >>

\* triggerIdle, from the timer's expiry to its first await: the goodbye and
\* sleep(1500) when the model socket is open, else the REST hangup
IdleTimerFire(c) ==
  /\ c \in Known
  /\ Due(transcripts[c].idleTimer)
  /\ LET s == transcripts[c]
     IN  /\ transcripts' = Put(c, [s EXCEPT !.idleTimer = NoTimer])
         /\ IF s.dnc.attempted
            THEN /\ Emit(<< >>)
                 /\ UNCHANGED idleRuns
            ELSE IF IDLE_SEND_GOODBYE /\ s.aiWS /\ aiWS = "OPEN"
            THEN /\ Emit(<< Msg("ai", "goodbye") >>)
                 /\ idleRuns' = idleRuns \cup
                      {[call |-> c, pc |-> "sleep", due |-> now + IDLE_GOODBYE_WAIT_MS]}
            ELSE /\ Emit(<< Rest("hangup", c) >>)
                 /\ idleRuns' = idleRuns \cup
                      {[call |-> c, pc |-> "rest", due |-> NoTimer]}
  /\ UNCHANGED << timeVars, connVars, pressRateLimit, releaseTimers,
                  pendingAcks, callInfo, fires >>

\* triggerIdle after sleep(1500): the REST hangup is issued
IdleWake(r) ==
  /\ r \in idleRuns
  /\ r.pc = "sleep"
  /\ Due(r.due)
  /\ idleRuns' = (idleRuns \ {r}) \cup {[r EXCEPT !.pc = "rest", !.due = NoTimer]}
  /\ Emit(<< Rest("hangup", r.call) >>)
  /\ UNCHANGED << timeVars, connVars, transcripts, pressRateLimit,
                  releaseTimers, pendingAcks, callInfo, fires >>

\* triggerIdle after hangupCall returned: both sockets of the call are closed
IdleRestDone(r) ==
  /\ r \in idleRuns
  /\ r.pc = "rest"
  /\ idleRuns' = idleRuns \ {r}
  /\ aiWS' = IF transcripts[r.call].aiWS THEN closeWs(aiWS) ELSE aiWS
  /\ twilioWS' = IF transcripts[r.call].twilioWS THEN closeWs(twilioWS) ELSE twilioWS
  /\ Emit(<< >>)
  /\ UNCHANGED << timeVars, streamSid, currentCallSid, callerFrom, aiReady,
                  openPc, startPc, transcripts, pressRateLimit, releaseTimers,
                  pendingAcks, callInfo, fires >>

\* the +6 s greeting fallback: trySendGreetingNow('fallback-timeout')
GreetingFallback ==
  /\ currentCallSid # NULL
  /\ Due(getState(currentCallSid).greetingTimer)
  /\ LET g == trySendGreetingNow(
                [getState(currentCallSid) EXCEPT !.greetingTimer = NoTimer])
     IN  /\ transcripts' = Put(currentCallSid, g.s)
         /\ Emit(g.out)
  /\ UNCHANGED << timeVars, connVars, pressRateLimit, releaseTimers, idleRuns,
                  pendingAcks, callInfo, fires >>

\* the number-mode silence timer: exitNumberMode(callSid, 'silence')
NumberModeTimer(c) ==
  /\ c \in Known
  /\ Due(transcripts[c].numberMode.timer)
  /\ transcripts' = Put(c, exitNumberMode(
                         [transcripts[c] EXCEPT !.numberMode.timer = NoTimer]))
  /\ Emit(<< >>)
  /\ UNCHANGED << timeVars, connVars, pressRateLimit, releaseTimers, idleRuns,
                  pendingAcks, callInfo, fires >>

\* a barge-in release timeout set by handleBargeInStop
BargeReleaseFire(d) ==
  /\ d \in releaseTimers
  /\ Due(d)
  /\ releaseTimers' = releaseTimers \ {d}
  /\ transcripts' = Put(currentCallSid, bargeInRelease(getState(currentCallSid)))
  /\ Emit(<< >>)
  /\ UNCHANGED << timeVars, connVars, pressRateLimit, idleRuns, pendingAcks,
                  callInfo, fires >>

(***************************************************************************)
(* app.post('/transcripts').                                               *)
(***************************************************************************)
COALESCE_WINDOW_MS == 2000

\* String.prototype.trim on the texts of the model
trim(text) ==
  CASE text = " hello " -> "hello"
    [] text = "  "      -> ""
    [] OTHER            -> text

\* text.endsWith('-')
endsWithDash(text) == text = "hold on-"

\* e inserted behind every entry whose ts is not greater: Array.prototype.sort
\* is stable
RECURSIVE insertByTs(_, _)
insertByTs(sorted, e) ==
  IF sorted = << >> THEN << e >>
  ELSE IF sorted[Len(sorted)].ts <= e.ts THEN Append(sorted, e)
  ELSE Append(insertByTs(SubSeq(sorted, 1, Len(sorted) - 1), e),
              sorted[Len(sorted)])

\* [...events].sort((a, b) => (a.ts || 0) - (b.ts || 0))
RECURSIVE sortByTs(_)
sortByTs(evs) ==
  IF evs = << >> THEN << >>
  ELSE insertByTs(sortByTs(SubSeq(evs, 1, Len(evs) - 1)), evs[Len(evs)])

\* a test that merges every entry of the same role, however late
coalesces_AnyGap(last, role, e) == last.role = role

\* last.role === role && (e.ts - last.tsLast) <= COALESCE_WINDOW_MS
coalesces(last, role, e) ==
  last.role = role /\ e.ts - last.tsLast <= COALESCE_WINDOW_MS

\* the loop over the sorted entries; the text of a turn is kept as the list
\* of its pieces and of the joiners between them
RECURSIVE mergeFrom(_, _, _)
mergeFrom(sorted, i, merged) ==
  IF i > Len(sorted) THEN merged
  ELSE LET e == sorted[i]
           role == IF e.role = "assistant" THEN "Assistant" ELSE "Caller"
           text == trim(e.text)
           n == Len(merged)
       IN  IF text = "" THEN mergeFrom(sorted, i + 1, merged)
           ELSE IF n > 0 /\ coalesces(merged[n], role, e)
           THEN mergeFrom(sorted, i + 1,
                  [merged EXCEPT ![n] =
                     [@ EXCEPT !.text = @ \o << (IF endsWithDash(@[Len(@)]) THEN "" ELSE " "),
                                                text >>,
                               !.tsLast = e.ts]])
           ELSE mergeFrom(sorted, i + 1,
                  Append(merged, [role |-> role, text |-> << text >>,
                                  tsFirst |-> e.ts, tsLast |-> e.ts]))

\* buildInterleavedTranscript: the turns, each a role label and its text
buildInterleavedTranscript(evs) ==
  LET merged == mergeFrom(sortByTs(evs), 1, << >>)
  IN  [k \in DOMAIN merged |-> [role |-> merged[k].role, text |-> merged[k].text]]

\* the rendered transcript handed to the log sinks
Rendered(c, turns) == << "sink", "rendered", c, turns >>

\* the query hints fill meta.from and meta.callerName when they are empty
withHints(s, c) ==
  [s EXCEPT !.meta.from = IF @ = << >> THEN callInfo[c].from ELSE @,
            !.meta.callerName = IF @ = "" THEN callInfo[c].callerName ELSE @]

TranscriptStarted(c) ==
  /\ transcripts' = Put(c, bumpActivity(withHints(getState(c), c)))
  /\ Emit(<< >>)
  /\ UNCHANGED << timeVars, connVars, pressRateLimit, releaseTimers, idleRuns,
                  pendingAcks, callInfo, fires >>

\* the decision without the confidence threshold
autoPressDecision_NoThreshold(s, c, line) ==
  LET a == inferAutoPressAction(line, s.meta.callerName)
  IN  IF a.digit # NULL
      THEN noted(sendAutoPressAndMaybeHangup(s, c, s.meta.from, a.digit),
                 PhraseFire(a.digit, a.confidence))
      ELSE [s |-> s, map |-> pressRateLimit, out |-> << >>, fired |-> FALSE]

\* the auto-press decision on a caller line
autoPressDecision(s, c, line) ==
  LET a == inferAutoPressAction(line, s.meta.callerName)
  IN  IF a.digit # NULL /\ a.confidence >= AUTO_PRESS_CONFIDENCE
      THEN noted(sendAutoPressAndMaybeHangup(s, c, s.meta.from, a.digit),
                 PhraseFire(a.digit, a.confidence))
      ELSE [s |-> s, map |-> pressRateLimit, out |-> << >>, fired |-> FALSE]

\* the mark left in emitted by a run that skipped the auto-press decision
\* on a caller line because the call's latch was set
PressSkipped == Msg("none", "press.skipped")

\* transcription-content: the whole handler on one (Track, text)
transcriptContent(s0, c, track, line) ==
  LET none(s) == [s |-> s, map |-> pressRateLimit, out |-> << >>, fired |-> FALSE]
      s1 == IF track = "inbound_track" THEN maybeEnterNumberMode(s0, line) ELSE s0
      s2 == bumpActivity(s1)
  IN  IF line = "" THEN none(bumpActivity(s0))
      ELSE IF track = "outbound_track" /\ ~s0.greetingSkipped /\ isGreeting(line)
      THEN none(bumpActivity([s0 EXCEPT !.greetingSkipped = TRUE]))
      ELSE IF AUTO_DNC_ENABLE /\ track = "inbound_track" /\ ~s2.dnc.attempted
      THEN autoPressDecision(s2, c, line)
      ELSE IF AUTO_DNC_ENABLE /\ track = "inbound_track"
      THEN [none(s2) EXCEPT !.out = << PressSkipped >>]
      ELSE none(s2)

\* whether the handler reaches buf.events.push for this (Track, line)
pushes(s0, track, line) ==
  /\ line # ""
  /\ ~(track = "outbound_track" /\ ~s0.greetingSkipped /\ isGreeting(line))

\* role by track; a line of any other track is filed under the caller
roleOf(track) == IF track = "outbound_track" THEN "assistant" ELSE "caller"

\* buf.events of the call ([] when getState has just created the entry)
eventsOf(c) ==
  IF events # Untracked /\ c \in DOMAIN events THEN events[c] ELSE << >>

TranscriptContent(c, track, line) ==
  /\ events # Untracked => Len(eventsOf(c)) < MaxEvents
  /\ LET r == transcriptContent(withHints(getState(c), c), c, track, line)
         key == rateKey(r.s.meta.from,
                        inferAutoPressAction(line, r.s.meta.callerName).digit)
     IN  /\ fires' = IF r.fired THEN [fires EXCEPT ![c] = @ + 1] ELSE fires
         /\ IF r.fired
            THEN \E o \in RestOutcomes :
                   LET d == restSettled(r.s, r.map, key, o)
                   IN  /\ transcripts' = Put(c, d.s)
                       /\ pressRateLimit' = d.map
                       /\ pressFailed' = failedPress(c, key, o)
                       /\ Send(r.out \o d.out)
            ELSE /\ transcripts' = Put(c, r.s)
                 /\ pressRateLimit' = r.map
                 /\ UNCHANGED pressFailed
                 /\ Send(r.out)
  /\ UNCHANGED voiceVars
  /\ events' =
       IF events = Untracked THEN Untracked
       ELSE [d \in DOMAIN events \cup {c} |->
               IF d # c THEN events[d]
               ELSE IF pushes(getState(c), track, line)
               THEN Append(eventsOf(c),
                           [role |-> roleOf(track), text |-> line, ts |-> now])
               ELSE eventsOf(c)]
  /\ UNCHANGED << timeVars, connVars, releaseTimers, idleRuns, pendingAcks,
                  callInfo >>

\* transcription-stopped / transcription-error: the transcript is rendered
\* and dispatched to the log sinks; the entry stays in the store
TranscriptStopped(c) ==
  /\ transcripts' = Put(c, withHints(getState(c), c))
  /\ Emit(<< << "sink", "transcript", c >> >>
          \o (IF events = Untracked THEN << >>
              ELSE << Rendered(c, buildInterleavedTranscript(eventsOf(c))) >>))
  /\ UNCHANGED << timeVars, connVars, pressRateLimit, releaseTimers, idleRuns,
                  pendingAcks, callInfo, fires >>

(***************************************************************************)
(* The outbound command channel: the chat-bot webhook, its pending          *)
(* confirmation codes and the call-create request.                          *)
(***************************************************************************)
OUTBOUND_CODE_TTL_MS == 120000

\* String(x).trim()
normalizeChatId(x) == IF x = "42 " THEN "42" ELSE x

\* an allow-list test that lets every chat through
isAllowedOutboundChat_Any(chatId) == TRUE

isAllowedOutboundChat(chatId) ==
  LET a == normalizeChatId(OUT_TG_ALLOWED)
  IN  IF a = "" THEN FALSE ELSE normalizeChatId(chatId) = a

looksLikePhoneDigits(phone) == Len(normalizeDigits(phone)) >= 10

normalizeToE164US(phone) ==
  LET d == normalizeDigits(phone)
  IN  IF d = << >> THEN << >>
      ELSE IF Head(phone) = "+" /\ Len(d) >= 10 THEN << "+" >> \o d
      ELSE IF Len(d) = 10 THEN << "+", "1" >> \o d
      ELSE << "+" >> \o d

\* the numbers a /call can name directly, and the VIP list of the config
DirectPhone == << "5", "5", "5", "9", "8", "7", "0", "0", "0", "1" >>
Vips == { [name |-> "jeff", phone |-> PhoneA] }

\* the codes makeShortCode can draw in the model: both ends of its range
ShortCodes == {"100000", "999999"}
\* a code no /call was answered with
UnknownCode == "123456"

\* the texts of the chat messages
OutTexts ==
  { "", "/help", "hello",
    "/call jeff 5680 | follow up about invoice",
    "/call bob 1234 | say hi",
    "/call jeff 5680",
    "/call jeff",
    "/call 5559870001 | confirm pickup",
    "YES 100000", "YES 999999", "YES 123456",
    "/cancel 100000", "/cancel 999999" }

\* the updates the webhook receives (secret header, chat id, text): every
\* text from the chat "42" with the header "s3", and a /call, a YES and a
\* /cancel from every chat with every header
OutChats == {"42", "7"}
OutSecrets == {"", "s3"}
GateTexts == { "/call 5559870001 | confirm pickup", "YES 100000", "/cancel 100000" }
GateUpdates == [secret : OutSecrets, chat : OutChats, text : GateTexts]
Updates == [secret : {"s3"}, chat : {"42"}, text : OutTexts] \cup GateUpdates

\* the texts parseCallCommand returns null for
unparsed(text) ==
  text \notin { "/call jeff 5680 | follow up about invoice", "/call bob 1234 | say hi",
                "/call jeff 5680", "/call 5559870001 | confirm pickup" }

\* parseCallCommand: the direct phone / name query, last 4, theme
parseCallCommand(text) ==
  CASE text = "/call jeff 5680 | follow up about invoice"
         -> [directPhone |-> << >>, nameQuery |-> "jeff",
             last4 |-> << "5", "6", "8", "0" >>, theme |-> "follow up about invoice"]
    [] text = "/call bob 1234 | say hi"
         -> [directPhone |-> << >>, nameQuery |-> "bob",
             last4 |-> << "1", "2", "3", "4" >>, theme |-> "say hi"]
    [] text = "/call jeff 5680"
         -> [directPhone |-> << >>, nameQuery |-> "jeff",
             last4 |-> << "5", "6", "8", "0" >>, theme |-> ""]
    [] text = "/call 5559870001 | confirm pickup"
         -> [directPhone |-> DirectPhone, nameQuery |-> "",
             last4 |-> << >>, theme |-> "confirm pickup"]

isCallText(text) ==
  text \in { "/call jeff 5680 | follow up about invoice", "/call bob 1234 | say hi",
             "/call jeff 5680", "/call jeff", "/call 5559870001 | confirm pickup" }

\* text.slice(4).trim() of a text starting with "yes "; NULL otherwise
yesCode(text) ==
  CASE text = "YES 100000" -> "100000"
    [] text = "YES 999999" -> "999999"
    [] text = "YES 123456" -> "123456"
    [] OTHER -> NULL

\* text.slice(8).trim() of a text starting with "/cancel "; NULL otherwise
cancelCode(text) ==
  CASE text = "/cancel 100000" -> "100000"
    [] text = "/cancel 999999" -> "999999"
    [] OTHER -> NULL

last4Of(phone) ==
  LET d == normalizeDigits(phone)
  IN  IF Len(d) <= 4 THEN d ELSE SubSeq(d, Len(d) - 3, Len(d))

vipMatchesNameAndLast4(vip, nameQuery, last4) ==
  nameQuery # "" /\ vip.name = nameQuery /\ last4Of(vip.phone) = last4

\* resolveOutboundRecipient: [ok, to]
resolveOutboundRecipient(parsed) ==
  IF parsed.directPhone # << >> /\ looksLikePhoneDigits(parsed.directPhone)
  THEN [ok |-> TRUE, to |-> normalizeToE164US(parsed.directPhone)]
  ELSE LET matches == { v \in Vips :
                          vipMatchesNameAndLast4(v, parsed.nameQuery, parsed.last4) }
       IN  IF matches = {} THEN [ok |-> FALSE, to |-> << >>]
           ELSE [ok |-> TRUE,
                 to |-> normalizeToE164US((CHOOSE v \in matches : TRUE).phone)]

\* an age test that never finds a code too old
expired_Never(rec) == FALSE

expired(rec) == now - rec.createdAt > OUTBOUND_CODE_TTL_MS

\* purgeExpiredOutboundCodes, as the Map it leaves
purgeExpiredOutboundCodes(pending) ==
  [c \in { k \in DOMAIN pending : ~expired(pending[k]) } |-> pending[c]]

\* a Map.delete that deletes nothing
Without_Noop(pending, code) == pending

\* Map.delete and Map.set
Without(pending, code) == [c \in DOMAIN pending \ {code} |-> pending[c]]
With(pending, code, rec) ==
  [c \in DOMAIN pending \cup {code} |-> IF c = code THEN rec ELSE pending[c]]

Reply(kind) == << "tg", kind >>
CallCreate(to) == << "rest", "call.create", to >>

\* everything of the bridge that an outbound handler leaves alone
bridgeVars == << twilioWS, aiWS, streamSid, currentCallSid, callerFrom, aiReady,
                 openPc, startPc, transcripts, pressRateLimit, releaseTimers,
                 idleRuns, pendingAcks, callInfo, sentKinds, greetings, fires,
                 wire, events, envVars, cfgRuns, voiceVars, pressFailed >>

\* the webhook handler whose yes branch leaves the pending entry in the Map
outWebhook_YesKeepsEntry(u) ==
  LET purged == purgeExpiredOutboundCodes(outboundPending)
      done(pending, out) == [pending |-> pending, run |-> {}, out |-> out]
      parsed == parseCallCommand(u.text)
      yc == yesCode(u.text)
      cc == cancelCode(u.text)
  IN  IF OUT_TG_SECRET # "" /\ u.secret # OUT_TG_SECRET
      THEN done(outboundPending, << >>)
      ELSE IF u.text = "" THEN done(purged, << >>)
      ELSE IF ~isAllowedOutboundChat(u.chat) THEN done(purged, << >>)
      ELSE IF u.text = "/help" THEN done(purged, << Reply("help") >>)
      ELSE IF isCallText(u.text)
      THEN IF unparsed(u.text) THEN done(purged, << Reply("format") >>)
           ELSE IF parsed.theme = "" THEN done(purged, << Reply("missing-theme") >>)
           ELSE [pending |-> purged,
                 run |-> {[pc |-> "resolve", parsed |-> parsed]},
                 out |-> << >>]
      ELSE IF cc # NULL
      THEN IF cc \notin DOMAIN purged THEN done(purged, << Reply("no-pending") >>)
           ELSE done(Without(purged, cc), << Reply("cancelled") >>)
      ELSE IF yc # NULL
      THEN IF yc \notin DOMAIN purged THEN done(purged, << Reply("not-valid") >>)
           ELSE IF expired(purged[yc])
           THEN done(Without(purged, yc), << Reply("expired") >>)
           ELSE [pending |-> purged,
                 run |-> {[pc |-> "place", rec |-> purged[yc]]},
                 out |-> << Reply("placing") >>]
      ELSE done(purged, << Reply("unknown") >>)

\* the webhook handler from its entry to its first await: the Map it leaves,
\* the run it suspends (if any) and the reply it sends
outWebhook(u) ==
  LET purged == purgeExpiredOutboundCodes(outboundPending)
      done(pending, out) == [pending |-> pending, run |-> {}, out |-> out]
      parsed == parseCallCommand(u.text)
      yc == yesCode(u.text)
      cc == cancelCode(u.text)
  IN  IF OUT_TG_SECRET # "" /\ u.secret # OUT_TG_SECRET
      THEN done(outboundPending, << >>)
      ELSE IF u.text = "" THEN done(purged, << >>)
      ELSE IF ~isAllowedOutboundChat(u.chat) THEN done(purged, << >>)
      ELSE IF u.text = "/help" THEN done(purged, << Reply("help") >>)
      ELSE IF isCallText(u.text)
      THEN IF unparsed(u.text) THEN done(purged, << Reply("format") >>)
           ELSE IF parsed.theme = "" THEN done(purged, << Reply("missing-theme") >>)
           ELSE [pending |-> purged,
                 run |-> {[pc |-> "resolve", parsed |-> parsed]},
                 out |-> << >>]
      ELSE IF cc # NULL
      THEN IF cc \notin DOMAIN purged THEN done(purged, << Reply("no-pending") >>)
           ELSE done(Without(purged, cc), << Reply("cancelled") >>)
      ELSE IF yc # NULL
      THEN IF yc \notin DOMAIN purged THEN done(purged, << Reply("not-valid") >>)
           ELSE IF expired(purged[yc])
           THEN done(Without(purged, yc), << Reply("expired") >>)
           ELSE [pending |-> Without(purged, yc),
                 run |-> {[pc |-> "place", rec |-> purged[yc]]},
                 out |-> << Reply("placing") >>]
      ELSE done(purged, << Reply("unknown") >>)

\* app.post(OUT_TG_WEBHOOK_PATH), up to the first await
OutWebhook(u) ==
  LET r == outWebhook(u)
  IN  /\ outboundPending' = r.pending
      /\ outRuns' = outRuns \cup r.run
      /\ Cardinality(outRuns') <= MaxRuns
      /\ emitted' = r.out
      /\ UNCHANGED << timeVars, bridgeVars, OUT_TG_ALLOWED, OUT_TG_SECRET,
                      created, placed >>

\* the /call branch after resolveOutboundRecipient returned
OutCallResolved(r) ==
  /\ r \in outRuns
  /\ r.pc = "resolve"
  /\ outRuns' = outRuns \ {r}
  /\ LET resolved == resolveOutboundRecipient(r.parsed)
     IN  IF ~resolved.ok
         THEN /\ emitted' = << Reply("resolve-error") >>
              /\ UNCHANGED << outboundPending, created >>
         ELSE /\ created < MaxCreated
              /\ \E code \in ShortCodes :
                   outboundPending' =
                     With(outboundPending, code,
                          [to |-> resolved.to, theme |-> r.parsed.theme,
                           createdAt |-> now])
              /\ created' = created + 1
              /\ emitted' = << Reply("request-received") >>
  /\ UNCHANGED << timeVars, bridgeVars, OUT_TG_ALLOWED, OUT_TG_SECRET, placed >>

\* the yes branch after the "placing" message: twilioCreateOutboundCall and
\* the reply that reports its result
OutPlaceCall(r) ==
  /\ r \in outRuns
  /\ r.pc = "place"
  /\ outRuns' = outRuns \ {r}
  /\ placed' = placed + 1
  /\ \E result \in {"call-initiated", "call-failed"} :
       emitted' = << CallCreate(r.rec.to), Reply(result) >>
  /\ UNCHANGED << timeVars, bridgeVars, OUT_TG_ALLOWED, OUT_TG_SECRET,
                  outboundPending, created >>

\* the instants at which the last transcript entry of a call is at the end
\* of the coalesce window and just past it
CoalesceExpiries ==
  IF events = Untracked THEN {}
  ELSE UNION { { events[c][Len(events[c])].ts + COALESCE_WINDOW_MS,
                 events[c][Len(events[c])].ts + COALESCE_WINDOW_MS + 1 } :
               c \in { d \in DOMAIN events : events[d] # << >> } }

\* the instants at which the cached document is in its last millisecond of
\* freshness and at which it is stale
ConfigExpiries ==
  IF configCache.data = NoConfig THEN {}
  ELSE { configCache.when + CONFIG_TTL_MS - 1, configCache.when + CONFIG_TTL_MS }

\* the instants at which a pending code is at its TTL and just past it
CodeExpiries ==
  UNION { { outboundPending[c].createdAt + OUTBOUND_CODE_TTL_MS,
            outboundPending[c].createdAt + OUTBOUND_CODE_TTL_MS + 1 } :
          c \in DOMAIN outboundPending }

(***************************************************************************)
(* The clock.  Time advances by the small step, or to the next instant at  *)
(* which something is due; it never passes the deadline of a pending timer.*)
(***************************************************************************)
Deadlines ==
  ( { transcripts[c].idleTimer : c \in Known }
    \cup { transcripts[c].greetingTimer : c \in Known }
    \cup { transcripts[c].numberMode.timer : c \in Known }
    \cup releaseTimers
    \cup { r.due : r \in idleRuns } ) \ {NoTimer}

RateExpiries == { pressRateLimit[k] + windowMs : k \in { j \in RateKeys : pressRateLimit[j] > 0 } }

Tick ==
  /\ ticks < MaxTicks
  /\ \E t \in {now + TickMs} \cup Deadlines \cup RateExpiries \cup CodeExpiries
                \cup CoalesceExpiries \cup ConfigExpiries :
       /\ t > now
       /\ \A d \in Deadlines : t <= d
       /\ now' = t
  /\ ticks' = ticks + 1
  /\ Emit(<< >>)
  /\ UNCHANGED << connVars, transcripts, pressRateLimit, releaseTimers,
                  idleRuns, pendingAcks, callInfo, fires >>

(***************************************************************************)
(* The bridge: one media-socket connection carrying StreamCallSid, its     *)
(* transcription callbacks and its timers.                                 *)
(***************************************************************************)
Next ==
  \/ WsConnection
  \/ AiOpen
  \/ AiOpenConfigDone
  \/ TwilioStart
  \/ StartDncRestDone
  \/ StartConfigDone
  \/ TwilioMedia
  \/ TwilioStop
  \/ TwilioClose
  \/ AiClose
  \/ AiSessionUpdated
  \/ AiSpeechStarted
  \/ AiSpeechStopped
  \/ \E n \in DeltaSizes : AiAudioDelta(n)
  \/ \E n \in BinarySizes : AiBinary(n)
  \/ IdleTimerFire(StreamCallSid)
  \/ \E r \in idleRuns : IdleWake(r)
  \/ \E r \in idleRuns : IdleRestDone(r)
  \/ GreetingFallback
  \/ NumberModeTimer(StreamCallSid)
  \/ \E d \in releaseTimers : BargeReleaseFire(d)
  \/ TranscriptStarted(StreamCallSid)
  \/ \E i \in TranscriptInputs : TranscriptContent(StreamCallSid, i[1], i[2])
  \/ TranscriptStopped(StreamCallSid)
  \/ Tick

Spec == Init /\ [][Next]_vars

(***************************************************************************)
(* The bridge under the environments of its control loops.  Each of the    *)
(* specifications below is the bridge restricted to the events one loop    *)
(* reacts to; the connection's life cycle and the clock are in all of them.*)
(***************************************************************************)
\* session orchestration: session.update, the greeting, caller audio
NextSession ==
  \/ WsConnection
  \/ AiOpen
  \/ AiOpenConfigDone
  \/ TwilioStart
  \/ StartDncRestDone
  \/ StartConfigDone
  \/ TwilioMedia
  \/ TwilioStop
  \/ TwilioClose
  \/ AiClose
  \/ AiSessionUpdated
  \/ GreetingFallback
  \/ Tick

SpecSession == Init /\ [][NextSession]_vars

\* the mute: barge-in, number mode and the assistant's audio
InitMute ==
  /\ InitCommon
  /\ callInfo = [c \in CallSids |-> [from |-> PhoneA, callerName |-> ""]]

NextMute ==
  \/ WsConnection
  \/ AiOpen
  \/ TwilioStart
  \/ TwilioClose
  \/ AiSpeechStarted
  \/ AiSpeechStopped
  \/ \E n \in DeltaSizes : AiAudioDelta(n)
  \/ \E n \in BinarySizes : AiBinary(n)
  \/ NumberModeTimer(StreamCallSid)
  \/ \E d \in releaseTimers : BargeReleaseFire(d)
  \/ \E i \in NumberInputs : TranscriptContent(StreamCallSid, i[1], i[2])
  \/ Tick

SpecMute == InitMute /\ [][NextMute]_vars

\* caller audio against the barge-in mute: both audio directions, the speech
\* events and the release timeout
NextMedia ==
  \/ WsConnection
  \/ AiOpen
  \/ TwilioStart
  \/ TwilioMedia
  \/ AiSpeechStarted
  \/ AiSpeechStopped
  \/ \E n \in DeltaSizes : AiAudioDelta(n)
  \/ \E d \in releaseTimers : BargeReleaseFire(d)
  \/ Tick

SpecMedia == InitMute /\ [][NextMedia]_vars

\* entry into number mode: transcript lines of both tracks and the silence timer
NextNumber ==
  \/ WsConnection
  \/ AiOpen
  \/ TwilioStart
  \/ \E i \in EntryInputs : TranscriptContent(StreamCallSid, i[1], i[2])
  \/ NumberModeTimer(StreamCallSid)
  \/ Tick

SpecNumber == InitMute /\ [][NextNumber]_vars

\* the outbound command channel alone, with the allow-list and the secret set
InitOutbound ==
  /\ InitBridge
  /\ restFails = FALSE
  /\ InitPlainConfig
  /\ events = Untracked
  /\ callInfo = [c \in CallSids |-> [from |-> PhoneA, callerName |-> ""]]
  /\ OUT_TG_ALLOWED = "42 "
  /\ OUT_TG_SECRET = "s3"

NextOutbound ==
  \/ \E u \in Updates : OutWebhook(u)
  \/ \E r \in outRuns : OutCallResolved(r)
  \/ \E r \in outRuns : OutPlaceCall(r)
  \/ Tick

SpecOutbound == InitOutbound /\ [][NextOutbound]_vars

\* the gate of the webhook, under each configuration of the allow-list and
\* the secret: a /call, a YES and a /cancel from every chat with every header
InitGate ==
  /\ InitBridge
  /\ restFails = FALSE
  /\ InitPlainConfig
  /\ events = Untracked
  /\ callInfo = [c \in CallSids |-> [from |-> PhoneA, callerName |-> ""]]
  /\ OUT_TG_ALLOWED \in {"", "42 "}
  /\ OUT_TG_SECRET \in {"", "s3"}

NextGate ==
  \/ \E u \in GateUpdates : OutWebhook(u)
  \/ \E r \in outRuns : OutCallResolved(r)
  \/ \E r \in outRuns : OutPlaceCall(r)
  \/ Tick

SpecGate == InitGate /\ [][NextGate]_vars

\* the auto-press engine and the idle watchdog
InitDnc ==
  /\ InitCommon
  /\ callInfo \in [CallSids -> [from : {PhoneA}, callerName : {"", "Spam Likely"}]]
  /\ callInfo["CA2"].callerName = ""

NextDnc ==
  \/ WsConnection
  \/ AiOpen
  \/ TwilioStart
  \/ StartDncRestDone
  \/ TwilioClose
  \/ AiClose
  \/ IdleTimerFire(StreamCallSid)
  \/ \E r \in idleRuns : IdleWake(r)
  \/ \E r \in idleRuns : IdleRestDone(r)
  \/ TranscriptStarted(StreamCallSid)
  \/ \E i \in PressInputs : TranscriptContent(StreamCallSid, i[1], i[2])
  \/ TranscriptStopped(StreamCallSid)
  \/ Tick

SpecDnc == InitDnc /\ [][NextDnc]_vars

\* the auto-press engine across two calls: the call of the connection and a
\* second call seen by the /transcripts webhook
InitRate ==
  /\ InitCommon
  /\ callInfo \in [CallSids -> [from : Froms, callerName : {"", "Spam Likely"}]]
  /\ callInfo["CA1"].from = PhoneA
  /\ callInfo["CA2"].from # PhoneA
  /\ callInfo["CA2"].callerName = ""

NextRate ==
  \/ WsConnection
  \/ TwilioStart
  \/ StartDncRestDone
  \/ \E c \in CallSids : IdleTimerFire(c)
  \/ \E r \in idleRuns : IdleRestDone(r)
  \/ \E c \in CallSids, i \in RateInputs : TranscriptContent(c, i[1], i[2])
  \/ Tick

SpecRate == InitRate /\ [][NextRate]_vars

\* the auto-press engine with a provider whose call-update requests can
\* fail: two calls from the same number, one of them with a spam caller name
InitPress ==
  /\ InitBridgeOnly
  /\ restFails = TRUE
  /\ callInfo \in [CallSids -> [from : {PhoneA}, callerName : {"", "Spam Likely"}]]
  /\ callInfo["CA2"].callerName = ""

NextPress ==
  \/ WsConnection
  \/ TwilioStart
  \/ StartDncRestDone
  \/ \E c \in CallSids, i \in RateInputs : TranscriptContent(c, i[1], i[2])
  \/ Tick

SpecPress == InitPress /\ [][NextPress]_vars

\* the idle watchdog against traffic: caller audio, assistant audio, barge-in
\* and transcript lines around the fire and the goodbye wait
IdleInputs == {"inbound_track"} \X {"hello", "press nine to be removed"}

NextIdle ==
  \/ WsConnection
  \/ AiOpen
  \/ AiOpenConfigDone
  \/ TwilioStart
  \/ StartConfigDone
  \/ TwilioMedia
  \/ AiSpeechStarted
  \/ AiAudioDelta(160)
  \/ \E i \in IdleInputs : TranscriptContent(StreamCallSid, i[1], i[2])
  \/ IdleTimerFire(StreamCallSid)
  \/ \E r \in idleRuns : IdleWake(r)
  \/ \E r \in idleRuns : IdleRestDone(r)
  \/ Tick

SpecIdle == InitMute /\ [][NextIdle]_vars

\* the model socket ahead of the telephony start event: the model's
\* acknowledgements, speech events and audio arrive before and after start,
\* and the transcription webhook has created the call's state by then or
\* not; all of it within one instant of the clock
NextEarly ==
  \/ WsConnection
  \/ AiOpen
  \/ AiOpenConfigDone
  \/ TwilioStart
  \/ StartConfigDone
  \/ AiSessionUpdated
  \/ AiSpeechStarted
  \/ AiSpeechStopped
  \/ AiAudioDelta(200)
  \/ \E n \in BinarySizes : AiBinary(n)
  \/ TranscriptContent(StreamCallSid, "inbound_track", "five five five")

SpecEarly == InitMute /\ [][NextEarly]_vars

\* the clock once the traffic has stopped: time goes to the next pending
\* deadline
TimerTick ==
  /\ ticks = MaxTicks
  /\ \E t \in Deadlines :
       /\ t > now
       /\ \A d \in Deadlines : t <= d
       /\ now' = t
  /\ Emit(<< >>)
  /\ UNCHANGED << ticks, connVars, transcripts, pressRateLimit, releaseTimers,
                  idleRuns, pendingAcks, callInfo, fires >>

\* the mute under traffic that stops: speech events and caller lines with
\* digits arrive while the clock's budget lasts, a speech-stopped can still
\* follow a speech-started after that, and the timers run to their end
LiveInputs == {"inbound_track"} \X {"five five five",
                 "my number is five five five one two three four five six seven"}

NextMuteLive ==
  \/ WsConnection
  \/ AiOpen
  \/ TwilioStart
  \/ ticks < MaxTicks /\ AiSpeechStarted
  \/ /\ ticks < MaxTicks \/ (currentCallSid # NULL /\ getState(currentCallSid).bargeIn.active)
     /\ AiSpeechStopped
  \/ /\ ticks < MaxTicks
     /\ \E i \in LiveInputs : TranscriptContent(StreamCallSid, i[1], i[2])
  \/ NumberModeTimer(StreamCallSid)
  \/ \E d \in releaseTimers : BargeReleaseFire(d)
  \/ GreetingFallback
  \/ Tick
  \/ TimerTick

\* setTimeout callbacks that are due run, and time passes
SpecMuteLive ==
  /\ InitMute
  /\ [][NextMuteLive]_vars
  /\ WF_vars(NumberModeTimer(StreamCallSid))
  /\ WF_vars(\E d \in releaseTimers : BargeReleaseFire(d))
  /\ WF_vars(GreetingFallback)
  /\ WF_vars(Tick)
  /\ WF_vars(TimerTick)

(***************************************************************************)
(* Properties.                                                             *)
(***************************************************************************)
\* the state of the call the connection carries
cur == getState(currentCallSid)

MediaSent == Msg("twilio", "media") \in Range(emitted)

\* C1: mute is authoritative.  Whenever a handler run has sent a media
\* event to the telephony socket, neither barge-in nor number-mode is active
\* for the call: assistant audio is forwarded only when both flags are false.
C1_MuteAuthoritative ==
  MediaSent =>
    /\ currentCallSid # NULL
    /\ ~cur.bargeIn.active
    /\ ~cur.numberMode.active

\* C1, its case: with number-mode active, barge-in active and the telephony
\* socket open, an assistant audio message arrived and was withheld
C1_Witness ==
  /\ AudioDropped \in Range(emitted)
  /\ twilioWS = "OPEN"
  /\ cur.numberMode.active
  /\ cur.bargeIn.active

\* C2: greeting exactly once.  At most one greeting response.create is
\* delivered to the model per call, and once the greeting latch of the call
\* is set (the greeting counts as sent and its fallback timer is cleared)
\* exactly one has been delivered.
C2_GreetingExactlyOnce ==
  /\ greetings <= 1
  /\ (currentCallSid # NULL /\ cur.greetedOnce) => greetings = 1

\* C3: barge-in ordering.  In every handler run that sends response.cancel
\* to the model, exactly one clear was sent to the telephony socket, before
\* the response.cancel, and output_audio_buffer.clear follows it.
C3_ClearBeforeCancel ==
  \A i \in DOMAIN emitted :
    emitted[i] = Msg("ai", "response.cancel") =>
      /\ CountEv(emitted, "clear") = 1
      /\ \E j \in 1..(i - 1) : emitted[j] = Msg("twilio", "clear")
      /\ \E k \in (i + 1)..Len(emitted) :
           emitted[k] = Msg("ai", "output_audio_buffer.clear")

\* C4: the DNC latch.  dnc.attempted never goes back to false for a call
\* (no step, a later start or transcript line included, resets it); once it
\* is set no step issues an auto-press redirect for the call; and no call
\* ever has more than one auto-press fire.
C4_DncLatch ==
  [][ \A c \in CallSids :
        /\ (c \in Known /\ transcripts[c].dnc.attempted) =>
             /\ c \in DOMAIN transcripts'
             /\ transcripts'[c].dnc.attempted
             /\ fires'[c] = fires[c]
        /\ fires'[c] <= 1 ]_vars

\* C4, its case: the call has fired once, and a later caller line asking
\* for a digit was handled without a second redirect
C4_Witness ==
  /\ PressSkipped \in Range(emitted)
  /\ fires[StreamCallSid] = 1
  /\ cur.dnc.attempted
  /\ startPc = "done"

\* C5: once dnc.attempted is true for a call, the idle watchdog issues no
\* REST hangup for it: no handler run sends the hangup request of a call
\* whose latch is set.
C5_NoIdleHangupAfterDnc ==
  \A c \in Known :
    Rest("hangup", c) \in Range(emitted) => ~transcripts[c].dnc.attempted

\* the second half of C5: after a fire the idle timer of the call is disarmed
C5_IdleDisarmedAfterFire ==
  \A c \in Known : transcripts[c].dnc.attempted => transcripts[c].idleTimer = NoTimer

\* the notes of the fires of the step's handler run
FireNotes == { n \in Range(emitted') : n[1] = "fire" }

\* the rate-limit key of a fire of call c, read after the step
FireKey(c, n) == rateKey(transcripts'[c].meta.from, n[3])

\* the step fired for call c under key k: no fire of k within the window
\* before it, and the fire is recorded at the current instant
WindowRespected(k) ==
  /\ now - pressRateLimit[k] >= windowMs
  /\ pressRateLimit'[k] = now

\* C6 as stated: every auto-press fire is decided by the classifier's
\* confidence for a caller utterance being at or above the threshold, with
\* no prior fire for the same (caller_last10, digit) within the window.
C6_FireNeedsConfidence ==
  [][ \A c \in CallSids :
        fires'[c] # fires[c] =>
          \E n \in FireNotes :
            /\ n[2] = "phrase"
            /\ n[4] >= AUTO_PRESS_CONFIDENCE
            /\ WindowRespected(FireKey(c, n)) ]_vars

\* C6, amended: a phrase-based fire happens only when the classifier's
\* confidence for the caller line is at or above the threshold; the
\* default-digits fire of 'start' has no caller line and happens only when
\* the caller name matches the spam pattern; every fire, of either kind,
\* happens only when no fire for its (caller_last10, digit) key lies within
\* the rate-limit window.
C6_FireGuarded ==
  [][ \A c \in CallSids :
        fires'[c] # fires[c] =>
          \E n \in FireNotes :
            /\ n[2] = "phrase" => n[4] >= AUTO_PRESS_CONFIDENCE
            /\ n[2] = "default" =>
                 /\ c = StreamCallSid
                 /\ isCnamSpam(transcripts'[c].meta.callerName)
            /\ WindowRespected(FireKey(c, n)) ]_vars

\* C6, its case: a phrase fire decided at exactly the threshold (a spam
\* caller name and a line without removal intent) and recorded under its key
C6_Witness ==
  /\ PhraseFire("2", AUTO_PRESS_CONFIDENCE) \in Range(emitted)
  /\ fires[StreamCallSid] = 1
  /\ transcripts[StreamCallSid].dnc.attempted
  /\ pressRateLimit[rateKey(PhoneA, "2")] = now

\* C7: the rate limiter across calls.  The stamp of a key changes only in a
\* step that fires, and then moves by at least the window, so two fires of
\* one key are at least the window apart; a step whose auto-press the rate
\* limiter rejected fires nothing and leaves every stamp as it was.
C7_RateLimiter ==
  [][ /\ \A k \in RateKeys :
           pressRateLimit'[k] # pressRateLimit[k] =>
             /\ pressRateLimit'[k] - pressRateLimit[k] >= windowMs
             /\ \E c \in CallSids : fires'[c] = fires[c] + 1
      /\ (\E c \in CallSids : fires'[c] # fires[c]) =>
           \E k \in RateKeys : pressRateLimit'[k] # pressRateLimit[k]
      /\ RateLimited \in Range(emitted') =>
           /\ pressRateLimit' = pressRateLimit
           /\ fires' = fires ]_vars

\* the key both calls use when they come from the same number and ask for 9
SharedKey == rateKey(PhoneA, "9")

\* C7, its case: the second call, from the same number as the first (written
\* differently), asked for the digit the first call fired, later than that
\* fire and within the window, and was rejected
C7_Witness ==
  /\ RateLimited \in Range(emitted)
  /\ rateKey(callInfo["CA2"].from, "9") = SharedKey
  /\ callInfo["CA2"].from # callInfo["CA1"].from
  /\ fires = [c \in CallSids |-> IF c = "CA1" THEN 1 ELSE 0]
  /\ pressRateLimit[SharedKey] < now
  /\ now - pressRateLimit[SharedKey] < windowMs

\* the other case of C7: both calls, from the same number, fired the same
\* key, the second a window or more after the first
C7_Refire ==
  /\ PhraseFire("9", 97) \in Range(emitted)
  /\ fires = [c \in CallSids |-> 1]
  /\ rateKey(callInfo["CA2"].from, "9") = SharedKey
  /\ \A c \in CallSids : callInfo[c].callerName = ""

\* the call the connection carries has ended: 'stop' was handled or a
\* socket of the call has closed
CallEnded ==
  /\ currentCallSid # NULL
  /\ (twilioWS \in {"CLOSING", "CLOSED"} \/ aiWS \in {"CLOSING", "CLOSED"})

\* C8: timer hygiene.  Once the call has ended none of its timers (idle,
\* greeting fallback, number-mode silence, barge-in release) is pending, so
\* that no timer callback runs on the call's state afterwards.
C8_TimersCancelledOnEnd ==
  CallEnded =>
    /\ cur.idleTimer = NoTimer
    /\ cur.greetingTimer = NoTimer
    /\ cur.numberMode.timer = NoTimer
    /\ releaseTimers = {}

\* C9: the store removes a call's entry at DONE.  Once both sockets of a
\* started call are closed and its transcription-stopped callback has been handled
\* (the transcript went to the sinks), the store holds no entry for it.
C9_EntryRemovedAtDone ==
  ( /\ currentCallSid = StreamCallSid
    /\ twilioWS = "CLOSED"
    /\ aiWS = "CLOSED"
    /\ << "sink", "transcript", StreamCallSid >> \in Range(emitted) )
  => StreamCallSid \notin DOMAIN transcripts

\* what the code does instead: an entry, once created, stays in the store
C9_EntriesNeverRemoved ==
  [][ \A c \in CallSids : c \in DOMAIN transcripts => c \in DOMAIN transcripts' ]_vars

\* message i of the last handler run was preceded by a session.update
AfterSessionUpdate(i) ==
  \/ "session.update" \in sentKinds
  \/ \E j \in 1..(i - 1) : emitted[j] = Msg("ai", "session.update")

\* C10: session.update is sent to the model before any greeting and before
\* any caller audio (input_audio_buffer.append) is forwarded to it.
C10_SessionUpdateFirst ==
  \A i \in DOMAIN emitted :
    emitted[i] \in { Msg("ai", "greeting"), Msg("ai", "input_audio_buffer.append") }
      => AfterSessionUpdate(i)

\* the half of C10 about the greeting alone
C10_GreetingAfterSessionUpdate ==
  \A i \in DOMAIN emitted :
    emitted[i] = Msg("ai", "greeting") => AfterSessionUpdate(i)

\* the greeting was delivered to the model by the last handler run
GreetingSent == Msg("ai", "greeting") \in Range(emitted)

\* C11: inbound greeting gating.  A handler run that delivers the greeting
\* of an inbound call leaves the call with aiSessionReady true, and
\* aiSessionReady becomes true only in a step that consumes a
\* session.updated from the model after the stream has started.
C11_InboundGreetingAfterAck ==
  [][ /\ (GreetingSent' /\ ~cur'.meta.outbound.isOutbound) => cur'.aiSessionReady
      /\ (cur'.aiSessionReady /\ ~cur.aiSessionReady) =>
           /\ streamSid # NULL
           /\ pendingAcks' = pendingAcks - 1 ]_vars

\* C11, its case: the greeting of an inbound call was delivered by the run
\* that handled session.updated, the fallback timer still pending before it
C11_Witness ==
  /\ GreetingSent
  /\ ~cur.meta.outbound.isOutbound
  /\ cur.aiSessionReady
  /\ greetings = 1
  /\ startPc = "done"

\* C12: outbound greeting delivery.  Once the model socket of an outbound
\* call is open and the open and start handlers have run to their ends, with
\* no session.updated outstanding and no fallback timer left to retry, the
\* greeting has been delivered to the model, whichever of start and open
\* came first.
C12_OutboundGreetingDelivered ==
  ( /\ currentCallSid # NULL
    /\ cur.meta.outbound.isOutbound
    /\ aiWS = "OPEN"
    /\ openPc = "done"
    /\ startPc = "done"
    /\ pendingAcks = 0
    /\ cur.greetingTimer = NoTimer ) => greetings >= 1

\* C13: fallback cancelled on send.  In every reachable state, a call whose
\* greeting latch is set has no greeting fallback timer pending.
C13_NoFallbackAfterGreeting ==
  \A c \in Known : transcripts[c].greetedOnce => transcripts[c].greetingTimer = NoTimer

\* C13, its case: the greeting of an inbound call was sent on session.updated
\* before the fallback was due, and the fallback timer is gone
C13_Witness ==
  /\ GreetingSent
  /\ cur.greetedOnce
  /\ ~cur.meta.outbound.isOutbound
  /\ cur.greetingTimer = NoTimer
  /\ now < StartClock + GREETING_FALLBACK_MS

\* a step asserts barge-in: it stamps the assertion time or sends what
\* handleBargeInStart sends
BargeInAsserted ==
  \/ cur'.bargeIn.lastAt # cur.bargeIn.lastAt
  \/ Msg("ai", "response.cancel") \in Range(emitted')
  \/ Msg("twilio", "clear") \in Range(emitted')

\* C14: barge-in debounce.  No step asserts barge-in (stamps the assertion
\* time, sends the telephony clear or response.cancel) less than 250 ms after
\* the last barge-in assertion of the call, whether or not a speech-stopped
\* came in between.
C14_DebounceSinceLastAssertion ==
  [][ (currentCallSid # NULL /\ now - cur.bargeIn.lastAt < BARGE_DEBOUNCE_MS)
        => ~BargeInAsserted ]_vars

\* C15: barge-in release.  When a release timeout set by a speech-stopped
\* fires and un-mutes the assistant, no barge-in was asserted after that
\* speech-stopped: a release scheduled by an earlier speech-stopped never
\* un-mutes once a later barge-in has asserted.
C15_StaleReleaseNeverUnmutes ==
  [][ \A d \in releaseTimers \ releaseTimers' :
        (cur.muteAssistant /\ ~cur'.muteAssistant)
          => cur.bargeIn.lastAt <= d - BARGE_RELEASE_MS ]_vars

\* caller audio was forwarded to the model by the last handler run
AppendSent == Msg("ai", "input_audio_buffer.append") \in Range(emitted)

\* C16: the mute bus holds both directions.  A handler run that forwards a
\* caller media frame to the model as input_audio_buffer.append runs with the
\* assistant mute clear, as a run that forwards assistant audio does.
C16_NoCallerAudioWhileMuted ==
  (AppendSent \/ MediaSent) => (currentCallSid # NULL /\ ~cur.muteAssistant)

\* C17: number-mode mutes the assistant.  A step in which a caller line
\* reciting ten digits is taken while number-mode is inactive leaves
\* number-mode active with the mute asserted and the silence timer armed
\* 2500 ms ahead.
C17_TenDigitLineHoldsNumberMode ==
  [][ \A c \in CallSids :
        ( /\ ~getState(c).numberMode.active
          /\ getState(c).numberMode.digits # NUMBER_MIN_DIGITS
          /\ c \in DOMAIN transcripts'
          /\ transcripts'[c].numberMode.digits = NUMBER_MIN_DIGITS )
        => /\ transcripts'[c].numberMode.active
           /\ transcripts'[c].muteAssistant
           /\ transcripts'[c].numberMode.timer = now + NUMBER_SILENCE_GRACE_MS ]_vars

\* C18: number-mode entry.  With number-mode inactive, a step that takes a
\* caller (inbound_track) line short of the minimum digit count ends with
\* number-mode active and the mute set exactly when the line yields at least
\* 3 digits or contains phone punctuation; a step that takes an
\* assistant-track line never activates it.
C18_EntryExactlyOnDigitsOrPunct ==
  [][ \A i \in EntryInputs :
        ( /\ ~getState(StreamCallSid).numberMode.active
          /\ TranscriptContent(StreamCallSid, i[1], i[2]) )
        => LET s == transcripts'[StreamCallSid]
           IN  (s.numberMode.active /\ s.muteAssistant)
                 <=> /\ i[1] = "inbound_track"
                     /\ \/ Len(extractDigits(i[2])) >= 3
                        \/ hasPhonePunct(i[2]) ]_vars

\* C18, what the code does keep: the same statement over the lines that
\* yield at least one digit
C18_EntryWithDigits ==
  [][ \A i \in { j \in EntryInputs : extractDigits(j[2]) # "" } :
        ( /\ ~getState(StreamCallSid).numberMode.active
          /\ TranscriptContent(StreamCallSid, i[1], i[2]) )
        => LET s == transcripts'[StreamCallSid]
           IN  (s.numberMode.active /\ s.muteAssistant)
                 <=> /\ i[1] = "inbound_track"
                     /\ \/ Len(extractDigits(i[2])) >= 3
                        \/ hasPhonePunct(i[2]) ]_vars

\* an active number-mode has exactly its one silence timer pending, at most
\* 2500 ms ahead, and fewer than the minimum digits collected; an inactive
\* one has no timer
NumberModeTimed(s) ==
  IF s.numberMode.active
  THEN /\ s.numberMode.timer # NoTimer
       /\ s.numberMode.timer <= now + NUMBER_SILENCE_GRACE_MS
       /\ s.numberMode.digits < NUMBER_MIN_DIGITS
  ELSE s.numberMode.timer = NoTimer

\* C19: number-mode exit.  The step that ends the call (its telephony or
\* model socket starts closing) leaves number-mode inactive with no silence
\* timer pending; and number-mode is active only with fewer than the minimum
\* digits collected and its single silence timer pending, at most 2500 ms
\* ahead.
C19_ExitOnTimerDigitsOrCallEnd ==
  [][ /\ (CallEnded' /\ ~CallEnded) =>
           (~cur'.numberMode.active /\ cur'.numberMode.timer = NoTimer)
      /\ \A c \in Known : NumberModeTimed(transcripts[c]) ]_vars

\* C19, what the code does keep: the exits on the silence timer and on the
\* minimum digit count, and the single timer
C19_ExitOnTimerOrDigits == \A c \in Known : NumberModeTimed(transcripts[c])

\* C20: mute on number-mode exit.  A step that exits number-mode leaves the
\* assistant mute asserted exactly when barge-in is active; and while
\* barge-in is active no step releases the mute.
C20_ExitReleasesMuteIffNoBargeIn ==
  [][ \A c \in Known :
        /\ (transcripts[c].numberMode.active /\ ~transcripts'[c].numberMode.active)
             => (transcripts'[c].muteAssistant <=> transcripts'[c].bargeIn.active)
        /\ (transcripts[c].muteAssistant /\ ~transcripts'[c].muteAssistant)
             => ~transcripts[c].bargeIn.active ]_vars

\* C20, its case: number-mode was exited by its silence timer during a
\* barge-in asserted before the timer could be due, and the mute is still set
C20_Witness ==
  /\ ~cur.numberMode.active
  /\ cur.numberMode.timer = NoTimer
  /\ cur.numberMode.digits \in 3..(NUMBER_MIN_DIGITS - 1)
  /\ cur.bargeIn.active
  /\ cur.bargeIn.lastAt < StartClock + NUMBER_SILENCE_GRACE_MS
  /\ cur.muteAssistant

\* C20, its other case: number-mode was exited with barge-in not active and
\* the mute is released
C20_WitnessReleased ==
  /\ ~cur.numberMode.active
  /\ cur.numberMode.digits \in 3..(NUMBER_MIN_DIGITS - 1)
  /\ cur.bargeIn.lastAt < StartClock
  /\ ~cur.muteAssistant

\* a step that takes an audio frame of either direction, a speech control
\* event or a transcript line of the started call
ActivityStep ==
  \/ TwilioMedia
  \/ \E n \in DeltaSizes \ {0} : AiAudioDelta(n)
  \/ \E n \in BinarySizes : AiBinary(n)
  \/ AiSpeechStarted
  \/ AiSpeechStopped
  \/ \E i \in TranscriptInputs : TranscriptContent(currentCallSid, i[1], i[2])

\* C21: idle watchdog arming.  Every step that takes an audio frame in either
\* direction, a speech control event or a transcript line of the started call
\* leaves the call's idle timer at now + idle-timeout.
C21_ActivityResetsIdleTimer ==
  [][ (streamSid # NULL /\ currentCallSid # NULL /\ ActivityStep)
        => cur'.idleTimer = now + idleMs ]_vars

\* C21, what the code does keep: a step that forwards an audio frame or takes
\* a speech control event leaves the idle timer at now + idle-timeout
C21_ForwardedActivityResets ==
  [][ ( /\ streamSid # NULL
        /\ currentCallSid # NULL
        /\ \/ AiSpeechStarted
           \/ AiSpeechStopped
           \/ ActivityStep /\ (MediaSent' \/ AppendSent') )
        => cur'.idleTimer = now + idleMs ]_vars

\* the idle goodbye was sent by the step's handler run
GoodbyeSent == Msg("ai", "goodbye") \in Range(emitted')

\* the step's handler run issued the REST hangup of call c
HangupSent(c) == Rest("hangup", c) \in Range(emitted')

\* C22 as stated: every REST hangup of the idle watchdog is issued by a run
\* that has waited 1500 ms since the timer fired.
C22_HangupAfterWait ==
  [][ \A c \in Known :
        HangupSent(c) =>
          \E r \in idleRuns : r.call = c /\ r.pc = "sleep" /\ now >= r.due ]_vars

\* C22: idle fire sequence.  For a call whose dnc.attempted is false at the
\* fire: a goodbye is sent only by the fire itself, once, with the model
\* socket open, and starts a 1500 ms wait; the REST hangup is issued either
\* by the run whose wait has elapsed or, when no goodbye could be sent, by the
\* fire itself; and a run that has issued the hangup then closes the model
\* socket and the telephony socket the call's state refers to.
C22_IdleFireSequence ==
  [][ /\ GoodbyeSent =>
           /\ CountEv(emitted', "goodbye") = 1
           /\ IDLE_SEND_GOODBYE /\ aiWS = "OPEN"
           /\ \E c \in Known :
                /\ Due(transcripts[c].idleTimer)
                /\ ~transcripts[c].dnc.attempted
                /\ ~HangupSent(c)
                /\ idleRuns' \ idleRuns =
                     {[call |-> c, pc |-> "sleep", due |-> now + IDLE_GOODBYE_WAIT_MS]}
      /\ \A c \in Known :
           HangupSent(c) =>
             \/ \E r \in idleRuns :
                  /\ r.call = c /\ r.pc = "sleep" /\ now >= r.due
                  /\ idleRuns' = (idleRuns \ {r})
                                   \cup {[call |-> c, pc |-> "rest", due |-> NoTimer]}
             \/ /\ Due(transcripts[c].idleTimer)
                /\ ~transcripts[c].dnc.attempted
                /\ ~GoodbyeSent
                /\ ~(IDLE_SEND_GOODBYE /\ transcripts[c].aiWS /\ aiWS = "OPEN")
                /\ [call |-> c, pc |-> "rest", due |-> NoTimer] \in idleRuns'
      /\ \A r \in idleRuns \ idleRuns' :
           \/ r.pc = "sleep" /\ HangupSent(r.call)
           \/ /\ r.pc = "rest"
              /\ transcripts[r.call].aiWS => aiWS' = closeWs(aiWS)
              /\ transcripts[r.call].twilioWS => twilioWS' = closeWs(twilioWS) ]_vars

\* C22, its case: the goodbye was sent, 1500 ms passed, the hangup was issued
\* and the run has closed both sockets
C22_Witness ==
  /\ currentCallSid # NULL
  /\ ~cur.dnc.attempted
  /\ cur.idleTimer = NoTimer
  /\ idleRuns = {}
  /\ now >= StartClock + idleMs + IDLE_GOODBYE_WAIT_MS
  /\ aiWS = "CLOSING"
  /\ twilioWS = "CLOSING"

\* the update passes the gate of the webhook: secret header and allow-list
Admitted(u) ==
  /\ OUT_TG_SECRET # "" => u.secret = OUT_TG_SECRET
  /\ OUT_TG_ALLOWED # ""
  /\ normalizeChatId(u.chat) = normalizeChatId(OUT_TG_ALLOWED)

\* the runs the step suspended and the runs it resumed
NewRuns == outRuns' \ outRuns
EndedRuns == outRuns \ outRuns'

\* the codes whose pending entry the step created or replaced
WrittenCodes ==
  { c \in DOMAIN outboundPending' :
      c \notin DOMAIN outboundPending \/ outboundPending'[c] # outboundPending[c] }

\* the step issued a call-create request
CallCreated == \E m \in Range(emitted') : m[1] = "rest" /\ m[2] = "call.create"

\* C23: two-step confirmation.  A call-create request is issued only by a
\* run that a `YES <code>` suspended; such a run is suspended only by an
\* admitted update whose code had a pending entry no older than the TTL, for
\* the target of that entry; a pending entry is written only by a run that an
\* admitted, parsed `/call` with a non-empty theme suspended and whose
\* recipient resolved; no other step writes an entry or issues a request.
C23_TwoStepConfirmation ==
  [][ /\ CallCreated =>
           \E r \in EndedRuns : r.pc = "place" /\ CallCreate(r.rec.to) \in Range(emitted')
      /\ \A r \in NewRuns :
           /\ \E u \in Updates : OutWebhook(u)
           /\ \A u \in Updates :
                OutWebhook(u) =>
                  /\ Admitted(u)
                  /\ r.pc = "place" =>
                       /\ yesCode(u.text) \in DOMAIN outboundPending
                       /\ now - outboundPending[yesCode(u.text)].createdAt
                            <= OUTBOUND_CODE_TTL_MS
                       /\ r.rec = outboundPending[yesCode(u.text)]
                  /\ r.pc = "resolve" =>
                       /\ ~unparsed(u.text)
                       /\ r.parsed = parseCallCommand(u.text)
                       /\ r.parsed.theme # ""
      /\ \A c \in WrittenCodes :
           \E r \in EndedRuns :
             /\ r.pc = "resolve"
             /\ resolveOutboundRecipient(r.parsed).ok
             /\ outboundPending'[c] =
                  [to |-> resolveOutboundRecipient(r.parsed).to,
                   theme |-> r.parsed.theme, createdAt |-> now]
             /\ outboundPending'[c].to # << >> ]_vars

\* C23, its case: the call of the one pending entry was requested, the clock
\* standing at the entry's TTL, with both the allow-list and the secret set
C23_Witness ==
  /\ CallCreate(PhoneA) \in Range(emitted)
  /\ placed = 1
  /\ created = 1
  /\ OUT_TG_SECRET = "s3"
  /\ now = StartClock + OUTBOUND_CODE_TTL_MS

\* C24: single use of a confirmation code.  The step in which `YES <code>`
\* is accepted removes the code's entry before anything is awaited, and every
\* call-create request issued or about to be issued has consumed an entry of
\* its own: requests issued, plus runs about to issue one, plus entries still
\* pending, never exceed the entries created.
C24_SingleUse ==
  [][ /\ \A r \in NewRuns :
           r.pc = "place" =>
             \A u \in Updates :
               OutWebhook(u) => yesCode(u.text) \notin DOMAIN outboundPending'
      /\ placed' + Cardinality({ r \in outRuns' : r.pc = "place" })
           + Cardinality(DOMAIN outboundPending') <= created' ]_vars

\* C24, its case: a second `YES` for a code already used is answered
\* 'not valid' while the run of the first is about to place its call
C24_Witness ==
  /\ Reply("not-valid") \in Range(emitted)
  /\ created = 1
  /\ outboundPending = << >>
  /\ \E r \in outRuns : r.pc = "place"

\* C25: expired and unknown codes are told apart.  An admitted `YES <code>`
\* whose code has a pending entry older than the TTL is answered 'expired',
\* and one whose code has no entry and was never issued is answered
\* 'not valid'.
C25_ExpiredAndUnknownDistinct ==
  [][ \A u \in Updates :
        (Admitted(u) /\ yesCode(u.text) # NULL /\ OutWebhook(u)) =>
          /\ ( /\ yesCode(u.text) \in DOMAIN outboundPending
               /\ now - outboundPending[yesCode(u.text)].createdAt
                    > OUTBOUND_CODE_TTL_MS )
               => emitted' = << Reply("expired") >>
          /\ yesCode(u.text) = UnknownCode => emitted' = << Reply("not-valid") >> ]_vars

\* C25, what the code does keep: a code with no entry is answered 'not valid'
C25_UnknownNotValid ==
  [][ \A u \in Updates :
        ( /\ Admitted(u) /\ yesCode(u.text) # NULL
          /\ yesCode(u.text) \notin DOMAIN outboundPending
          /\ OutWebhook(u) )
          => emitted' = << Reply("not-valid") >> ]_vars

C27_RejectedUpdatesDoNothing ==
  [][ \A u \in GateUpdates :
        (~Admitted(u) /\ OutWebhook(u)) =>
          /\ emitted' = << >>
          /\ WrittenCodes = {}
          /\ UNCHANGED << outRuns, created, placed >> ]_vars

\* C27, its case: entries are pending where a secret is configured, and the
\* last update, which wrote none of them, got no reply
C27_Witness ==
  /\ OUT_TG_SECRET = "s3"
  /\ OUT_TG_ALLOWED # ""
  /\ emitted = << >>
  /\ outRuns = {}
  /\ created = 2
  /\ Cardinality(DOMAIN outboundPending) = 2
  /\ ticks = 0

\* C28: fresh codes.  The step that creates a pending entry stores it under
\* a code that was not pending before the step, so that every entry pending
\* before the step is still pending and unchanged after it.
C28_FreshCode ==
  [][ created' = created + 1 =>
        /\ WrittenCodes \cap DOMAIN outboundPending = {}
        /\ \A c \in DOMAIN outboundPending :
             c \in DOMAIN outboundPending' /\ outboundPending'[c] = outboundPending[c] ]_vars

\* C29: transport-level close.  The step in which the telephony socket
\* becomes closed leaves the model socket closing or closed if it was open,
\* and the step in which the model socket becomes closed leaves the
\* telephony socket closing or closed if it was open.
C29_PeerClosedOnClose ==
  [][ /\ (twilioWS # "CLOSED" /\ twilioWS' = "CLOSED") => aiWS' # "OPEN"
      /\ (aiWS # "CLOSED" /\ aiWS' = "CLOSED") => twilioWS' # "OPEN" ]_vars


(***************************************************************************)
(* Framing of assistant audio: chunkAndSendUlawBase64ToTwilio at the level *)
(* of bytes.  A byte is a number 0..255, a base64 text is a sequence of    *)
(* sextets 0..63 closed by padding marks.                                  *)
(***************************************************************************)
MaxFrames == 3

B64Pad == 64

\* slice.toString('base64'): three bytes give four sextets, a residue of one
\* or two bytes is zero-filled and padded
toBase64(bytes) ==
  LET n == Len(bytes)
      at(i) == IF i <= n THEN bytes[i] ELSE 0
  IN  [k \in 1..(4 * ((n + 2) \div 3)) |->
         LET q == (k - 1) \div 4
             r == (k - 1) % 4
             b0 == at(3 * q + 1)
             b1 == at(3 * q + 2)
             b2 == at(3 * q + 3)
         IN  CASE r = 0 -> b0 \div 4
               [] r = 1 -> (b0 % 4) * 16 + (b1 \div 16)
               [] r = 2 -> IF 3 * q + 2 > n THEN B64Pad
                           ELSE (b1 % 16) * 4 + (b2 \div 64)
               [] r = 3 -> IF 3 * q + 3 > n THEN B64Pad ELSE b2 % 64]

\* Buffer.from(text, 'base64'): the sextets before the first padding mark,
\* eight bits at a time; left-over bits are dropped
fromBase64(text) ==
  LET pads == { i \in DOMAIN text : text[i] = B64Pad }
      m == IF pads = {} THEN Len(text)
           ELSE (CHOOSE i \in pads : \A j \in pads : i <= j) - 1
      at(i) == IF i <= m THEN text[i] ELSE 0
  IN  [j \in 1..((m * 6) \div 8) |->
         LET q == (j - 1) \div 3
             r == (j - 1) % 3
             c0 == at(4 * q + 1)
             c1 == at(4 * q + 2)
             c2 == at(4 * q + 3)
             c3 == at(4 * q + 4)
         IN  CASE r = 0 -> c0 * 4 + (c1 \div 16)
               [] r = 1 -> (c1 % 16) * 16 + (c2 \div 4)
               [] r = 2 -> (c2 % 4) * 64 + c3]

Min(a, b) == IF a <= b THEN a ELSE b

\* a slice that stops one byte short of the frame size
sliceAt_Short(bytes, off) ==
  SubSeq(bytes, off + 1, Min(off + TWILIO_ULAW_BYTES_PER_20MS - 1, Len(bytes)))

\* bytes.subarray(off, Math.min(off + 160, bytes.length))
sliceAt(bytes, off) ==
  SubSeq(bytes, off + 1, Min(off + TWILIO_ULAW_BYTES_PER_20MS, Len(bytes)))

\* the media event carrying one slice
MediaEvent(sid, slice) ==
  [event |-> "media", streamSid |-> sid, payload |-> toBase64(slice)]

\* the loop over the offsets 0, 160, 320, ...; an empty slice is skipped
RECURSIVE framesFrom(_, _, _)
framesFrom(bytes, off, sid) ==
  IF off >= Len(bytes) THEN << >>
  ELSE (IF Len(sliceAt(bytes, off)) = 0 THEN << >>
        ELSE << MediaEvent(sid, sliceAt(bytes, off)) >>)
       \o framesFrom(bytes, off + TWILIO_ULAW_BYTES_PER_20MS, sid)

\* the events one call of chunkAndSendUlawBase64ToTwilio(b64Ulaw, twilioWS,
\* streamSid, counters) writes to twilioWS
ulawFrames(b64Ulaw, sid) == framesFrom(fromBase64(b64Ulaw), 0, sid)

\* the streamSid of a connection's closure once its start event was handled
streamSidOf(c) == IF c = "ws1" THEN "MZ1" ELSE "MZ2"

\* The audio deltas of the scenario: base64 texts of 0, 1, 160, 200 and 321
\* bytes, the bytes running through the values 0..255 from two offsets.
FrameLens == {0, 1, TWILIO_ULAW_BYTES_PER_20MS, 200, 321}
ByteSeeds == {0, 101}
UlawBuffers == { [i \in 1..n |-> (s + 37 * i) % 256] : n \in FrameLens, s \in ByteSeeds }
AudioDeltas == { toBase64(b) : b \in UlawBuffers }

TotalFrames == Len(wire["ws1"]) + Len(wire["ws2"])

\* response.audio.delta on the model socket of connection c, with the
\* telephony socket open, the stream started and the assistant not muted:
\* the frames go to the closure's twilioWS under the closure's streamSid
ForwardDelta(c, b64Ulaw) ==
  /\ TotalFrames < MaxFrames
  /\ wire' = [wire EXCEPT ![c] = @ \o ulawFrames(b64Ulaw, streamSidOf(c))]
  /\ UNCHANGED << timeVars, connVars, transcripts, pressRateLimit,
                  releaseTimers, idleRuns, pendingAcks, callInfo, emitted,
                  sentKinds, greetings, fires, outVars, events, envVars,
                  cfgRuns, voiceVars, pressFailed >>

InitFraming ==
  /\ InitCommon
  /\ callInfo = [c \in CallSids |-> [from |-> PhoneA, callerName |-> ""]]

NextFraming == \E c \in Conns, b64Ulaw \in AudioDeltas : ForwardDelta(c, b64Ulaw)

SpecFraming == InitFraming /\ [][NextFraming]_vars

RECURSIVE ConcatPayloads(_)
ConcatPayloads(frames) ==
  IF frames = << >> THEN << >>
  ELSE fromBase64(Head(frames).payload) \o ConcatPayloads(Tail(frames))

\* the events a step appended to the socket of connection c
NewFrames(c) == SubSeq(wire'[c], Len(wire[c]) + 1, Len(wire'[c]))

\* C30: framing law.  Forwarding one audio delta whose base64 text decodes
\* to N mu-law bytes appends exactly ceil(N/160) media events to the socket
\* of the connection the delta arrived on; every event carries exactly 160
\* bytes except possibly the last, which carries between 1 and 160; the
\* decoded payloads concatenated in order equal the decoded input; every
\* event bears the streamSid of that connection and the socket of the other
\* connection receives nothing.
C30_FramingLaw ==
  [][ \A c \in Conns, b64Ulaw \in AudioDeltas :
        ForwardDelta(c, b64Ulaw) =>
          LET bytes == fromBase64(b64Ulaw)
              N == Len(bytes)
              new == NewFrames(c)
          IN  /\ SubSeq(wire'[c], 1, Len(wire[c])) = wire[c]
              /\ Len(new) = (N + TWILIO_ULAW_BYTES_PER_20MS - 1)
                               \div TWILIO_ULAW_BYTES_PER_20MS
              /\ \A i \in DOMAIN new :
                   /\ new[i].event = "media"
                   /\ new[i].streamSid = streamSidOf(c)
                   /\ LET k == Len(fromBase64(new[i].payload))
                      IN  IF i < Len(new)
                          THEN k = TWILIO_ULAW_BYTES_PER_20MS
                          ELSE k >= 1 /\ k <= TWILIO_ULAW_BYTES_PER_20MS
              /\ ConcatPayloads(new) = bytes
              /\ \A d \in Conns \ {c} : wire'[d] = wire[d] ]_vars

\* a 200-byte delta was forwarded on the first connection as a full frame
\* and a 40-byte residue, and a one-byte delta on the second connection
C30_Witness ==
  /\ Len(wire["ws1"]) = 2
  /\ Len(fromBase64(wire["ws1"][1].payload)) = TWILIO_ULAW_BYTES_PER_20MS
  /\ Len(fromBase64(wire["ws1"][2].payload)) = 40
  /\ wire["ws1"][1].streamSid = "MZ1"
  /\ Len(wire["ws2"]) = 1
  /\ Len(fromBase64(wire["ws2"][1].payload)) = 1
  /\ wire["ws2"][1].streamSid = "MZ2"


(***************************************************************************)
(* The transcript of a call: the /transcripts webhook collects the entries *)
(* and renders them when the transcription stops.                          *)
(***************************************************************************)
\* the (Track, TranscriptionText) pairs of the scenario, before the trim
TranscriptTexts ==
  ({"inbound_track"} \X {"hello", " hello ", "hold on-", "  "})
    \cup ({"outbound_track"} \X {"hi, it's trinity. how can i help?", "sure, one moment"})
    \cup ({""} \X {"hello"})

InitTranscript ==
  /\ InitBridge
  /\ restFails = FALSE
  /\ InitPlainConfig
  /\ OUT_TG_ALLOWED = ""
  /\ OUT_TG_SECRET = ""
  /\ events = [c \in {} |-> << >>]
  /\ callInfo = [c \in CallSids |-> [from |-> PhoneA, callerName |-> ""]]

\* the callbacks of the call on the media socket
TranscriptCallbacks == {StreamCallSid} \X TranscriptTexts

NextTranscript ==
  \/ TranscriptStarted(StreamCallSid)
  \/ \E cb \in TranscriptCallbacks : TranscriptContent(cb[1], cb[2][1], trim(cb[2][2]))
  \/ TranscriptStopped(StreamCallSid)
  \/ Tick

SpecTranscript == InitTranscript /\ [][NextTranscript]_vars

\* the positions of evs in the order of a stable sort by ts
StableOrder(evs) ==
  LET n == Len(evs)
  IN  CHOOSE p \in [1..n -> 1..n] :
        /\ \A i, j \in 1..n : i # j => p[i] # p[j]
        /\ \A i, j \in 1..n :
             i < j => \/ evs[p[i]].ts < evs[p[j]].ts
                      \/ evs[p[i]].ts = evs[p[j]].ts /\ p[i] < p[j]

\* the entries with a non-empty text, in ts order
Spoken(evs) ==
  LET p == StableOrder(evs)
      all == [i \in 1..Len(evs) |-> evs[p[i]]]
  IN  SelectSeq(all, LAMBDA e : trim(e.text) # "")

\* entry i of the ts-ordered entries starts a turn
StartsTurn(sp, i) ==
  \/ i = 1
  \/ sp[i].role # sp[i - 1].role
  \/ sp[i].ts - sp[i - 1].ts > COALESCE_WINDOW_MS

\* the texts of a turn and the joiners between them, flattened
RECURSIVE TurnText(_, _, _)
TurnText(sp, from, to) ==
  IF from = to THEN << trim(sp[from].text) >>
  ELSE TurnText(sp, from, to - 1)
         \o << (IF endsWithDash(trim(sp[to - 1].text)) THEN "" ELSE " "),
               trim(sp[to].text) >>

CoalesceLaw(turns, evs) ==
  LET sp == Spoken(evs)
      starts == { i \in 1..Len(sp) : StartsTurn(sp, i) }
      \* the k-th start and the end of its turn
      startOf(k) == CHOOSE i \in starts : Cardinality({ j \in starts : j <= i }) = k
      endOf(k) == IF k = Cardinality(starts) THEN Len(sp) ELSE startOf(k + 1) - 1
  IN  /\ Len(turns) = Cardinality(starts)
      /\ \A k \in 1..Len(turns) :
           /\ turns[k].role = (IF sp[startOf(k)].role = "assistant"
                               THEN "Assistant" ELSE "Caller")
           /\ turns[k].text = TurnText(sp, startOf(k), endOf(k))

\* C31: coalesce law.  The rendered transcript takes the entries in ts
\* order; an entry of the same role as the entry before it and at most
\* 2000 ms later continues that entry's turn, joined by one space, or by
\* nothing when the text before it ends with "-"; an entry of another role
\* or more than 2000 ms later starts a new turn; every non-empty text
\* appears exactly once, in ts order.
C31_CoalesceLaw ==
  \A m \in Range(emitted) :
    (Len(m) = 4 /\ m[2] = "rendered") => CoalesceLaw(m[4], eventsOf(m[3]))

\* a transcript was rendered whose first turn joins a text ending in "-"
\* with the next one without a space and whose second turn is a same-role
\* entry that came more than 2000 ms later
C31_Witness ==
  \E m \in Range(emitted) :
    /\ Len(m) = 4 /\ m[2] = "rendered"
    /\ Len(m[4]) = 2
    /\ m[4][1] = [role |-> "Caller", text |-> << "hold on-", "", "hello" >>]
    /\ m[4][2] = [role |-> "Caller", text |-> << "hello" >>]

\* C32: transcript ingest.  A transcription-content callback either appends
\* its line to the entries of its call, with the role of its track and in
\* arrival order, or drops it; it drops only an empty line or the first assistant line of the
\* call, and that one only if it is a greeting; at most one line per call
\* is dropped as the greeting.
C32_DropsOnlyFirstAssistantGreeting ==
  [][ \A cb \in TranscriptCallbacks :
        LET c == cb[1]
            i == cb[2]
        IN
        (events # events' \/ transcripts # transcripts') =>
        (TranscriptContent(c, i[1], trim(i[2])) =>
          LET line == trim(i[2])
              before == eventsOf(c)
              after == events'[c]
              firstAssistant == /\ i[1] = "outbound_track"
                                /\ \A k \in DOMAIN before : before[k].role # "assistant"
                                /\ ~getState(c).greetingSkipped
          IN  /\ DOMAIN events' = {c}
              /\ \/ after = before /\ (line = "" \/ (firstAssistant /\ isGreeting(line)))
                 \/ /\ after = Append(before, [role |-> roleOf(i[1]), text |-> line,
                                               ts |-> now])
                    /\ line # "") ]_vars


(***************************************************************************)
(* The voice of a call: the session configuration of on-open and on-start  *)
(* with a caller who may be a VIP, a sheet whose fetch may fail, and the   *)
(* voice variables of the environment set, unset or set to an unknown      *)
(* voice.                                                                  *)
(***************************************************************************)
InitVoice ==
  /\ InitBridge
  /\ restFails = FALSE
  /\ events = Untracked
  /\ OUT_TG_ALLOWED = ""
  /\ OUT_TG_SECRET = ""
  /\ callInfo = [c \in CallSids |-> [from |-> PhoneA, callerName |-> ""]]
  /\ configs \in { {SheetConfig} } \cup { {VipSheet(ov)} : ov \in VoiceOverrides }
  /\ fetchFails = TRUE
  /\ DEFAULT_VOICE \in {"", "Cedar", "robot"}
  /\ MALE_VOICE \in {"", "onyx", "robot"}

NextVoice ==
  \/ WsConnection
  \/ AiOpen
  \/ AiOpenConfigDone
  \/ TwilioStart
  \/ StartConfigDone
  \/ AiSessionUpdated

SpecVoice == InitVoice /\ [][NextVoice]_vars

\* C34: the voice and the assistant name are locked for the call: all
\* session.update messages delivered to the model after the start event of
\* the call carry the same voice and the same assistant name.
C34_VoiceLockedForCall ==
  \A i, j \in DOMAIN updates :
    /\ updates[i].voice = updates[j].voice
    /\ updates[i].name = updates[j].name

\* the override of a VIP as the selection reads it
OverrideOf(vip) ==
  IF vip = << >> THEN "" ELSE toLowerCase(trimVoice(vip[1].voice_override))

\* the default voice and the male voice of the environment, "marin" and
\* "ballad" when unset or not in the allowed set
DefaultVoice ==
  IF toLowerCase(DEFAULT_VOICE) \in ALLOWED_VOICES THEN toLowerCase(DEFAULT_VOICE)
  ELSE "marin"
MaleVoice ==
  IF toLowerCase(MALE_VOICE) \in ALLOWED_VOICES THEN toLowerCase(MALE_VOICE)
  ELSE "ballad"

\* C36: voice selection.  Every session.update carries a voice of the
\* allowed set: the VIP's override when it names a voice of the set, the
\* male voice of the environment for "male", the default voice for
\* "female", for an override that is missing or not recognized and for a
\* caller who is no VIP; the assistant name is "Trinity" unless the
\* override is usable, and then it is the voice with its first letter in
\* upper case.
C36_VoiceSelection ==
  \A k \in DOMAIN updates :
    LET u == updates[k]
        ov == OverrideOf(u.vip)
        usable == ov \in ALLOWED_VOICES \cup {"male", "female"}
    IN  /\ u.voice \in ALLOWED_VOICES
        /\ u.voice = (IF ov \in ALLOWED_VOICES THEN ov
                      ELSE IF ov = "male" THEN MaleVoice
                      ELSE DefaultVoice)
        /\ u.name = (IF usable THEN displayVoiceName(u.voice) ELSE "Trinity")

\* a VIP whose override is "male" got the male voice of the environment and
\* its name, with an unknown default voice in the environment
C36_Witness ==
  /\ MALE_VOICE = "onyx"
  /\ DEFAULT_VOICE = "robot"
  /\ \E k \in DOMAIN updates :
       /\ OverrideOf(updates[k].vip) = "male"
       /\ updates[k].voice = "onyx"
       /\ updates[k].name = "Onyx"


(***************************************************************************)
(* The config provider on its own: calls of getConfigCached with and       *)
(* without forceFresh, fetches that return a document of the sheet or      *)
(* fail, and the clock around the TTL of the cache.                        *)
(***************************************************************************)
ConfigFetch == << "rest", "config.fetch" >>
ConfigReturned(data) == << "config", "return", data >>
ConfigThrown == << "config", "throw" >>

\* everything but the provider and the messages of the last handler run
notConfigVars ==
  << timeVars, connVars, transcripts, pressRateLimit, releaseTimers, idleRuns,
     pendingAcks, callInfo, sentKinds, greetings, fires, outVars, wire, events,
     envVars, selectedVoice, assistantName, callerVip, updates, pressFailed >>

\* getConfigCached({ forceFresh }) up to its return or to the await of
\* fetchConfigFresh
GetConfigCached(forceFresh) ==
  /\ IF cacheHit(configCache, forceFresh)
     THEN /\ emitted' = << ConfigReturned(configCache.data) >>
          /\ UNCHANGED cfgRuns
     ELSE /\ Len(cfgRuns) < MaxRuns
          /\ cfgRuns' = Append(cfgRuns, [at |-> now, forceFresh |-> forceFresh])
          /\ emitted' = << ConfigFetch >>
  /\ UNCHANGED << notConfigVars, configCache >>

\* the suspended calls without the i-th
RunsWithout(i) ==
  SubSeq(cfgRuns, 1, i - 1) \o SubSeq(cfgRuns, i + 1, Len(cfgRuns))

\* getConfigCached after fetchConfigFresh returned or threw, for the i-th
\* of the suspended calls
GetConfigFetched(i, o) ==
  /\ i \in DOMAIN cfgRuns
  /\ cfgRuns' = RunsWithout(i)
  /\ LET res == fetchReturn(configCache, cfgRuns[i].at, o)
     IN  /\ configCache' = res.cache
         /\ emitted' = << IF res.kind = "return" THEN ConfigReturned(res.data)
                          ELSE ConfigThrown >>
  /\ UNCHANGED notConfigVars

InitConfig ==
  /\ InitBridge
  /\ restFails = FALSE
  /\ events = Untracked
  /\ OUT_TG_ALLOWED = ""
  /\ OUT_TG_SECRET = ""
  /\ callInfo = [c \in CallSids |-> [from |-> PhoneA, callerName |-> ""]]
  /\ configs = {SheetConfig, NewSheet}
  /\ fetchFails = TRUE
  /\ DEFAULT_VOICE = ""
  /\ MALE_VOICE = ""

NextConfig ==
  \/ \E forceFresh \in BOOLEAN : GetConfigCached(forceFresh)
  \/ \E i \in DOMAIN cfgRuns, o \in FetchOutcomes : GetConfigFetched(i, o)
  \/ Tick

SpecConfig == InitConfig /\ [][NextConfig]_vars

\* C33: the config provider never propagates a fetch error.  A call whose
\* fetch failed returns the cached document when there is one and the
\* minimal fallback otherwise, and leaves the cache as it was; a call whose
\* fetch succeeded returns the fetched document; a call without forceFresh
\* that finds a cached document younger than the TTL returns it without a
\* fetch; a call with forceFresh always fetches.
C33_ConfigNeverThrows ==
  [][ /\ \A i \in DOMAIN cfgRuns, o \in FetchOutcomes :
           (Len(cfgRuns') < Len(cfgRuns) /\ GetConfigFetched(i, o)) =>
             /\ emitted' # << ConfigThrown >>
             /\ o.ok => emitted' = << ConfigReturned(o.data) >>
             /\ ~o.ok =>
                  /\ configCache' = configCache
                  /\ emitted' = << ConfigReturned(
                                     IF configCache.data # NoConfig
                                     THEN configCache.data ELSE FallbackConfig) >>
      /\ \A forceFresh \in BOOLEAN :
           GetConfigCached(forceFresh) =>
             IF /\ ~forceFresh
                /\ configCache.data # NoConfig
                /\ now - configCache.when < CONFIG_TTL_MS
             THEN emitted' = << ConfigReturned(configCache.data) >> /\ cfgRuns' = cfgRuns
             ELSE emitted' = << ConfigFetch >> /\ Len(cfgRuns') = Len(cfgRuns) + 1 ]_vars

\* a call on a cold cache whose fetch failed has returned the fallback
C33_Witness ==
  /\ configCache.data = NoConfig
  /\ emitted = << ConfigReturned(FallbackConfig) >>

\* a call on a warm cache whose fetch failed has returned the cached
\* document, after the sheet was seen to serve another one
C33_WitnessCached ==
  /\ configCache.data = SheetConfig
  /\ configCache.when + CONFIG_TTL_MS <= now
  /\ cfgRuns = << >>
  /\ emitted = << ConfigReturned(SheetConfig) >>

\* C35: an auto-press whose REST call failed stays recorded.  For every
\* auto-press whose call-update request threw, the call's dnc.attempted is
\* set and stays set, the call never fires again, the rate-limit entry of
\* its (caller last10, digit) pair stays at or after the stamp of the
\* attempt, and no step stamps that pair again (no call fires for it)
\* before the window has passed since the attempt.
C35_FailedPressStaysRecorded ==
  [][ \A f \in pressFailed' :
        /\ f.callSid \in DOMAIN transcripts'
        /\ transcripts'[f.callSid].dnc.attempted
        /\ f.at > 0
        /\ pressRateLimit'[f.key] >= f.at
        /\ f \in pressFailed =>
             /\ fires'[f.callSid] = fires[f.callSid]
             /\ pressRateLimit'[f.key] # pressRateLimit[f.key] =>
                  now' - f.at >= windowMs ]_vars

\* C35, its case: the redirect of the first call failed, and the second
\* call, asking for the same digit from the same number inside the window,
\* was rate-limited and did not fire
C35_Witness ==
  /\ \E f \in pressFailed :
       /\ f.callSid = "CA1"
       /\ now - f.at < windowMs
       /\ \A k \in RateKeys : pressRateLimit[k] > 0 => k = f.key
  /\ RateLimited \in Range(emitted)
  /\ "CA2" \in Known
  /\ ~transcripts["CA2"].dnc.attempted
  /\ fires["CA2"] = 0

\* C37: the +6 s greeting fallback.  Every run of the fallback timer's
\* callback finds the call either with the greeting latched or inbound with
\* aiSessionReady false, delivers no greeting and leaves the latch as it
\* found it: an inbound call whose session.updated has not arrived stays
\* ungreeted after its fallback.
C37_FallbackNeverGreets ==
  [][ ( /\ currentCallSid # NULL
        /\ Due(getState(currentCallSid).greetingTimer)
        /\ GreetingFallback )
      => /\ \/ cur.greetedOnce
            \/ (~cur.meta.outbound.isOutbound /\ ~cur.aiSessionReady)
         /\ ~GreetingSent'
         /\ greetings' = greetings
         /\ cur'.greetedOnce = cur.greetedOnce ]_vars

\* C37, its case: the fallback of an inbound call has run 6 s after the
\* start event, with the model socket open and no session.updated received;
\* the call is still waiting for its greeting
C37_Witness ==
  /\ currentCallSid # NULL
  /\ streamSid # NULL
  /\ startPc = "done"
  /\ aiWS = "OPEN"
  /\ ~cur.meta.outbound.isOutbound
  /\ cur.greetingPending
  /\ ~cur.greetedOnce
  /\ ~cur.aiSessionReady
  /\ cur.greetingTimer = NoTimer
  /\ greetings = 0

\* the call of the connection has a triggerIdle run in its goodbye wait
InGoodbyeWait ==
  /\ currentCallSid # NULL
  /\ streamSid # NULL
  /\ \E r \in idleRuns : r.call = currentCallSid /\ r.pc = "sleep"

\* a step that takes caller audio, assistant audio or a transcript line of
\* the call of the connection
TrafficStep ==
  \/ TwilioMedia
  \/ AiAudioDelta(160)
  \/ \E i \in IdleInputs : TranscriptContent(currentCallSid, i[1], i[2])

\* a triggerIdle run, once past its DNC check, ends only by itself: it
\* leaves its wait only by issuing the REST hangup, and it ends only by
\* closing the sockets the call's state refers to
HangupRunsToTheEnd ==
  \A r \in idleRuns :
    \/ r \in idleRuns'
    \/ /\ r.pc = "sleep"
       /\ now >= r.due
       /\ HangupSent(r.call)
       /\ [r EXCEPT !.pc = "rest", !.due = NoTimer] \in idleRuns'
    \/ /\ r.pc = "rest"
       /\ transcripts[r.call].aiWS => aiWS' = closeWs(aiWS)
       /\ transcripts[r.call].twilioWS => twilioWS' = closeWs(twilioWS)

\* C38: the idle hangup is not abortable.  No step takes a triggerIdle run
\* that passed its DNC check out of its course to the REST hangup and the
\* socket closes; and caller audio, assistant audio or a transcript line
\* taken during the 1500 ms goodbye wait arms a new idle timer at
\* now + idle-timeout and leaves the run in flight.
C38_IdleHangupNotAbortable ==
  [][ /\ HangupRunsToTheEnd
      /\ (InGoodbyeWait /\ TrafficStep) =>
           /\ cur'.idleTimer = now + idleMs
           /\ idleRuns' = idleRuns ]_vars

\* C38, what the code does keep: runs go to their end whatever arrives, and
\* traffic during the wait leaves the run in flight, the auto-press of a
\* transcript line that sets dnc.attempted included
C38_RunsToTheEndUnderTraffic ==
  [][ /\ HangupRunsToTheEnd
      /\ (InGoodbyeWait /\ TrafficStep) => idleRuns' = idleRuns ]_vars

\* C38, its case: during the goodbye wait a transcript line fired an
\* auto-press and re-armed the idle timer; the wait elapsed and the run has
\* issued the REST hangup all the same
C38_Witness ==
  /\ currentCallSid # NULL
  /\ cur.dnc.attempted
  /\ cur.idleTimer = now - IDLE_GOODBYE_WAIT_MS + idleMs
  /\ Rest("hangup", currentCallSid) \in Range(emitted)
  /\ \E r \in idleRuns : r.call = currentCallSid /\ r.pc = "rest"

\* a step that takes a message of the model socket
ModelEventStep ==
  \/ AiSessionUpdated
  \/ AiSpeechStarted
  \/ AiSpeechStopped
  \/ AiAudioDelta(200)
  \/ \E n \in BinarySizes : AiBinary(n)

\* media or clear was sent to the telephony socket by the step's handler run
TelephonyAudioSent ==
  \/ Msg("twilio", "media") \in Range(emitted')
  \/ Msg("twilio", "clear") \in Range(emitted')

\* C39: nothing reaches the telephony socket before start.  A step taken
\* while the start event has not supplied the stream id sends neither media
\* nor clear to the telephony socket; and a step that takes a message of the
\* model socket then (session.updated, speech_started, speech_stopped, an
\* audio delta, binary audio) sends nothing and changes nothing of the call
\* state store, of the timers or of the connection.
C39_NothingBeforeStart ==
  [][ streamSid = NULL =>
        /\ ~TelephonyAudioSent
        /\ ModelEventStep =>
             /\ emitted' = << >>
             /\ UNCHANGED << transcripts, releaseTimers, idleRuns, connVars,
                             pressRateLimit, greetings, fires >> ]_vars

\* C39, its case: before start, with the model socket open, a session.update
\* acknowledged and the call's state already in the store with the mute set
\* by number mode, a message of the model socket was taken and dropped
C39_Witness ==
  /\ streamSid = NULL
  /\ aiWS = "OPEN"
  /\ "session.update" \in sentKinds
  /\ pendingAcks = 0
  /\ StreamCallSid \in Known
  /\ transcripts[StreamCallSid].muteAssistant
  /\ emitted = << >>

\* what can hold the mute of state s: barge-in active, number mode active
\* with its silence timer pending, or a barge-in release timeout pending
MuteHeld(s) ==
  \/ s.bargeIn.active
  \/ s.numberMode.active /\ s.numberMode.timer # NoTimer
  \/ releaseTimers # {}

MuteAlwaysHeld ==
  \A c \in Known : transcripts[c].muteAssistant => MuteHeld(transcripts[c])

NoBargeInActive == \A c \in Known : ~transcripts[c].bargeIn.active

NoMute == \A c \in Known : ~transcripts[c].muteAssistant

\* C40: the mute is never stuck.  In every reachable state every call whose
\* muteAssistant is set has barge-in active, or number mode active with its
\* silence timer pending, or a barge-in release timeout pending; and once
\* the traffic has stopped with no barge-in left active (every
\* speech-started followed by a speech-stopped), the mute of every call
\* becomes false and stays false.
C40_MuteNeverStuck ==
  /\ []MuteAlwaysHeld
  /\ <>[]NoBargeInActive => <>[]NoMute

\* C40, its case: the call went through a barge-in and through number mode,
\* the traffic has stopped, every timer has run, and the mute is released
C40_Witness ==
  /\ ticks = MaxTicks
  /\ currentCallSid # NULL
  /\ cur.bargeIn.lastAt > 0
  /\ cur.numberMode.digits > 0
  /\ ~cur.numberMode.active
  /\ ~cur.bargeIn.active
  /\ releaseTimers = {}
  /\ ~cur.muteAssistant
====
